---- MODULE Spec2Model ----
(***************************************************************************)
(* Model of the aland-website store: the serverless (Netlify) handlers     *)
(* over the in-memory mockDB, the shared utilities (rate limiter, token    *)
(* verification) and the Express flat-file server.                         *)
(*                                                                         *)
(* Encodings used throughout:                                              *)
(*  - time is counted in minutes (Date.now() / 60000);                     *)
(*  - a number taken from a JSON body (quantity, stock) is carried in      *)
(*    half units: the model value h stands for the JS number h/2, so that  *)
(*    1.5 is representable and parseInt is a real conversion;              *)
(*  - an optional JSON field is <<>> when absent and <<v>> when present;   *)
(*  - an Authorization header is [bearers |-> k, tok |-> t]: k copies of   *)
(*    the prefix "Bearer " followed by the token text t.                   *)
(***************************************************************************)
EXTENDS Integers, Sequences, FiniteSets, TLC

VARIABLES
    users,           \* mockDB.users (serverless)
    products,        \* mockDB.products (serverless)
    orders,          \* mockDB.orders (serverless)
    rateLimitStore,  \* utils rateLimitStore: key -> recorded timestamps
    files,           \* Express data files: [users, products, orders]
    now,             \* wall clock, minutes
    env,             \* process.env [dev, JWT_EXPIRE] and the utils variant loaded
    utilsImpl,       \* which ./utils the handlers run against
    last,            \* the last request handled and its response
    client,          \* the browser's APIClient: the API call in progress
    awaiting,        \* the handlers suspended at an await, by slot
    cart             \* main.js: the cart, its copy in localStorage, the last call

vars == <<users, products, orders, rateLimitStore, files, now, env, utilsImpl, last, client, awaiting, cart>>

----------------------------------------------------------------------------
(* Bounds of the model *)

MaxOrders == 1
MaxProducts == 2
MaxLines == 2
MaxStock == 2
RateMax == 2        \* maxRequests of the limiter calls of SpecRate
RateWindow == 2     \* windowMs of the limiter calls of SpecRate
MaxUsers == 4        \* registration stops at this many users per store
MaxTicks == 3       \* the clock advances at most this many times

\* Repeated stock restorations stop at this stock.
StockCap == MaxStock + MaxLines

----------------------------------------------------------------------------
(* Program constants *)

FreeShippingThreshold == 100
ShippingFee == 15
MaxTokenAge == 1440
DefaultJwtExpire == 1440
ProductionJwtExpire == 10080

None == <<>>
Some(v) == <<v>>
IsSome(o) == o # <<>>
Get(o) == o[1]

Null == "null"

----------------------------------------------------------------------------
(* JS conversions *)

\* parseInt of the JS number h/2: truncation toward zero.
parseInt(h) == IF h >= 0 THEN h \div 2 ELSE -((-h) \div 2)

\* price * quantity for the JS number quantity = h/2 (prices of the model
\* are even, so the product is exact).
jsTimes(price, h) == (price * h) \div 2

\* String.prototype.toLowerCase on the strings of the model.
toLowerCase(s) ==
    CASE s = "CANCELLED" -> "cancelled"
      [] s = "Shipped" -> "shipped"
      [] s = "PAID" -> "paid"
      [] s = "Alice" -> "alice"
      [] s = "BOB" -> "bob"
      [] s = "Alice@X.com" -> "alice@x.com"
      [] s = "BOB@X.COM" -> "bob@x.com"
      [] s = "Admin" -> "admin"
      [] s = "ADMIN@ALANDSTORE.COM" -> "admin@alandstore.com"
      [] s = "Phone" -> "phone"
      [] s = "LAPTOP" -> "laptop"
      [] s = "createdAt" -> "createdat"
      [] s = "updatedAt" -> "updatedat"
      [] s = "totalAmount" -> "totalamount"
      [] s = "DESC" -> "desc"
      [] OTHER -> s

\* sanitizeInput: trim, then drop the characters < > " '.
sanitizeInput(s) ==
    CASE s = " T1 " -> "T1"
      [] s = "<T1>" -> "T1"
      [] s = "  " -> ""
      [] s = "<>" -> ""
      [] s = " phone " -> "phone"
      [] OTHER -> s

----------------------------------------------------------------------------
(* Sequences *)

RECURSIVE SumSeq(_)
SumSeq(s) == IF s = <<>> THEN 0 ELSE Head(s) + SumSeq(Tail(s))

\* Array.prototype.findIndex by id: the first index, 0 when there is none.
FindIndexById(arr, id) ==
    IF \E i \in 1..Len(arr) : arr[i].id = id
    THEN CHOOSE i \in 1..Len(arr) :
            arr[i].id = id /\ \A j \in 1..(i - 1) : arr[j].id # id
    ELSE 0

RemoveAt(arr, i) == SubSeq(arr, 1, i - 1) \o SubSeq(arr, i + 1, Len(arr))

----------------------------------------------------------------------------
(* Rate limiter (utils) *)

DevAddresses == {"localhost", "127.0.0.1", "::1", "deploy.netlify.app"}

\* isDevelopment of checkRateLimit: NODE_ENV / NETLIFY_DEV, or a caller
\* address that is local or contains "netlify".
isDevelopment(clientIP) == env.dev \/ clientIP \in DevAddresses

\* rateLimitStore.get(key) after the has/set of an absent key.
storedRequests(store, key) == IF key \in DOMAIN store THEN store[key] ELSE <<>>

\* A filter that keeps every recorded timestamp.
validRequestsKeepAll(requests, windowStart) == requests

\* requests.filter(timestamp => timestamp > windowStart)
validRequests(requests, windowStart) ==
    SelectSeq(requests, LAMBDA timestamp : timestamp > windowStart)

storePut(store, key, val) ==
    [k \in (DOMAIN store) \cup {key} |-> IF k = key THEN val ELSE store[k]]

\* The parts of a caller address between its colons.
segmentsOf(clientIP) ==
    CASE clientIP = "::1" -> <<"", "", "1">>
      [] clientIP = "10.0.0.1:login" -> <<"10.0.0.1", "login">>
      [] OTHER -> <<clientIP>>

\* A key made of the caller address alone.
keyTextAddressOnly(clientIP, endpoint) == segmentsOf(clientIP)

\* `${clientIP}:${endpoint}`, as the parts between its colons (no endpoint
\* name holds a colon).
keyText(clientIP, endpoint) == segmentsOf(clientIP) \o <<endpoint>>

\* The window with a refused call recorded like an allowed one.
slidingWindowRecordAll(store, clientIP, endpoint, maxRequests, windowMs) ==
    LET key == keyText(clientIP, endpoint)
        windowStart == now - windowMs
        touched == storePut(store, key, storedRequests(store, key))
        valid == validRequests(touched[key], windowStart)
    IN  [allowed |-> Len(valid) < maxRequests,
         store |-> storePut(touched, key, Append(valid, now))]

\* The part of checkRateLimit both variants share; the answer is
\* [allowed, store].
slidingWindow(store, clientIP, endpoint, maxRequests, windowMs) ==
    LET key == keyText(clientIP, endpoint)
        windowStart == now - windowMs
        touched == storePut(store, key, storedRequests(store, key))
        valid == validRequests(touched[key], windowStart)
    IN  IF Len(valid) >= maxRequests
        THEN [allowed |-> FALSE, store |-> touched]
        ELSE [allowed |-> TRUE, store |-> storePut(touched, key, Append(valid, now))]

\* checkRateLimit, first variant: development bypass, then the window.
checkRateLimit(store, clientIP, endpoint, maxRequests, windowMs) ==
    IF isDevelopment(clientIP)
    THEN [allowed |-> TRUE, store |-> store]
    ELSE slidingWindow(store, clientIP, endpoint, maxRequests, windowMs)

\* checkRateLimit, second variant: the window only.
checkRateLimitB(store, clientIP, endpoint, maxRequests, windowMs) ==
    slidingWindow(store, clientIP, endpoint, maxRequests, windowMs)

\* checkRateLimit of the utils module that is loaded.
utilsCheckRateLimit(store, clientIP, endpoint, maxRequests, windowMs) ==
    IF env.variant = 1
    THEN checkRateLimit(store, clientIP, endpoint, maxRequests, windowMs)
    ELSE checkRateLimitB(store, clientIP, endpoint, maxRequests, windowMs)

----------------------------------------------------------------------------
(* Tokens *)

\* jwt.sign(tokenPayload, JWT_SECRET, {expiresIn}) of login for user u at
\* time t: exp = iat + expiresIn.
signToken(u, t, expiresIn) ==
    [sig |-> "secret", id |-> u.id, username |-> u.username, email |-> u.email,
     role |-> u.role, iat |-> t, exp |-> t + expiresIn]

\* jwt.verify(token, JWT_SECRET) at time t: "ok" or the error it throws.
jwtVerify(tok, t) ==
    IF tok.sig # "secret" THEN "JsonWebTokenError"
    ELSE IF t >= tok.exp THEN "TokenExpiredError"
    ELSE "ok"

identityOf(tok) ==
    [id |-> tok.id, username |-> tok.username, email |-> tok.email, role |-> tok.role]

\* header.replace('Bearer ', ''): the first occurrence only.
stripBearer(text) ==
    [text EXCEPT !.bearers = IF @ > 0 THEN @ - 1 ELSE 0]

\* The empty string.
isEmptyText(text) == text.bearers = 0 /\ text.tok = None

\* verifyToken of utils (both variants): answers the decoded claims, or
\* throws 'Token verification failed'.
verifyToken(text) ==
    IF isEmptyText(text) \/ text.bearers = 0
    THEN [threw |-> TRUE, decoded |-> None]
    ELSE LET actualToken == stripBearer(text)
         IN  IF actualToken.bearers > 0 \/ actualToken.tok = None
             THEN [threw |-> TRUE, decoded |-> None]
             ELSE LET tok == Get(actualToken.tok)
                  IN  IF jwtVerify(tok, now) # "ok"
                      THEN [threw |-> TRUE, decoded |-> None]
                      ELSE IF tok.id = 0 \/ tok.email = ""
                      THEN [threw |-> TRUE, decoded |-> None]
                      ELSE [threw |-> FALSE, decoded |-> Some(tok)]

\* The verifyToken the handlers are written against: it answers
\* {success, payload} and never throws (Auth Gateway, "Verify token").
verifyTokenGateway(text) ==
    IF text.bearers > 0 \/ text.tok = None
    THEN [success |-> FALSE, payload |-> None]
    ELSE LET tok == Get(text.tok)
         IN  IF /\ jwtVerify(tok, now) = "ok"
                /\ now - tok.iat <= MaxTokenAge
                /\ tok.id # 0 /\ tok.email # ""
             THEN [success |-> TRUE, payload |-> Some(identityOf(tok))]
             ELSE [success |-> FALSE, payload |-> None]

\* checkAdminRole(decoded.payload) (Auth Gateway, "Authorize admin").
checkAdminRole(payload) == payload.role = "admin"

\* Lines 31-44 of every protected handler: the token is the header without
\* its first 'Bearer '; 401 without a token, 401 when verifyToken's answer
\* has no truthy .success, 500 (the handler's catch) when verifyToken throws.
handlerAuth(hdr) ==
    IF hdr = None \/ isEmptyText(stripBearer(Get(hdr)))
    THEN [status |-> 401, code |-> "TOKEN_REQUIRED", payload |-> None]
    ELSE LET token == stripBearer(Get(hdr))
         IN  IF utilsImpl = "utils"
             THEN IF verifyToken(token).threw
                  THEN [status |-> 500, code |-> "HANDLER_ERROR", payload |-> None]
                  ELSE [status |-> 401, code |-> "INVALID_TOKEN", payload |-> None]
             ELSE LET decoded == verifyTokenGateway(token)
                  IN  IF ~decoded.success
                      THEN [status |-> 401, code |-> "INVALID_TOKEN", payload |-> None]
                      ELSE [status |-> 200, code |-> "", payload |-> decoded.payload]

\* Lines 47-54 of the admin handlers. utils exports no checkAdminRole:
\* calling it throws, which the handler's catch answers with 500.
handlerAdmin(payload) ==
    IF utilsImpl = "utils"
    THEN [status |-> 500, code |-> "HANDLER_ERROR"]
    ELSE IF ~checkAdminRole(payload)
    THEN [status |-> 403, code |-> "ADMIN_REQUIRED"]
    ELSE [status |-> 200, code |-> ""]

----------------------------------------------------------------------------
(* Order engine: orders-create.js *)

allowedPaymentMethods ==
    {"credit_card", "debit_card", "bank_transfer", "e_wallet", "cash_on_delivery"}

\* The shipping-address checks of lines 61-95 on the address classes of the
\* model: absent, a sub-field missing, a sub-field out of its length bounds.
addressProblem(shippingAddress) ==
    CASE shippingAddress = "absent" -> "Shipping address is required"
      [] shippingAddress = "incomplete" -> "Complete shipping address required"
      [] shippingAddress = "bad-length" -> "Address field length"
      [] OTHER -> ""

\* mockDB.products.find(p => p.id === id): its index, 0 when not found.
findProduct(prods, id) == FindIndexById(prods, id)

\* The line checks without the stock comparison of lines 121-127.
itemProblemNoStock(prods, item) ==
    IF item.productId = 0 \/ item.quantity = 0 \/ item.quantity <= 0
    THEN "Invalid item"
    ELSE LET i == findProduct(prods, item.productId)
         IN  IF i = 0 THEN "Product not found"
             ELSE IF ~prods[i].isActive THEN "Product not available"
             ELSE ""

\* Lines 110-127, one cart line against the catalog: "" when the line passes.
itemProblem(prods, item) ==
    IF item.productId = 0 \/ item.quantity = 0 \/ item.quantity <= 0
    THEN "Invalid item"
    ELSE LET i == findProduct(prods, item.productId)
         IN  IF i = 0 THEN "Product not found"
             ELSE IF ~prods[i].isActive THEN "Product not available"
             ELSE IF 2 * prods[i].stock < item.quantity THEN "Insufficient stock"
             ELSE ""

\* Lines 129-139: the processed item of a cart line that passed.
\* The stored line with the first product of the catalog looked up instead
\* of the one the line names.
processedItemFirst(prods, item) ==
    LET product == prods[1]
    IN  [productId |-> item.productId,
         productName |-> product.name,
         price |-> product.price,
         quantity |-> parseInt(item.quantity),
         subtotal |-> jsTimes(product.price, item.quantity)]

processedItem(prods, item) ==
    LET product == prods[findProduct(prods, item.productId)]
    IN  [productId |-> product.id,
         productName |-> product.name,
         price |-> product.price,
         quantity |-> parseInt(item.quantity),
         subtotal |-> jsTimes(product.price, item.quantity)]

processedItems(prods, items) ==
    [k \in 1..Len(items) |-> processedItem(prods, items[k])]

\* Line 143.
shippingCostOf(totalAmount) ==
    IF totalAmount > FreeShippingThreshold THEN 0 ELSE ShippingFee

\* Lines 167-172: one item's stock decrement.
decrementOne(prods, item) ==
    LET i == findProduct(prods, item.productId)
    IN  IF i = 0 THEN prods
        ELSE [prods EXCEPT ![i].stock = @ - item.quantity]

RECURSIVE decrementStocks(_, _)
decrementStocks(prods, items) ==
    IF items = <<>> THEN prods
    ELSE decrementStocks(decrementOne(prods, Head(items)), Tail(items))

\* An order numbered by the count of the stored orders, without the + 1.
newOrderFromZero(payload, body, items) ==
    LET totalAmount == SumSeq([k \in 1..Len(items) |-> items[k].subtotal])
        shippingCost == shippingCostOf(totalAmount)
    IN  [id |-> Len(orders),
         userId |-> payload.id,
         items |-> items,
         paymentMethod |-> body.paymentMethod,
         status |-> "pending",
         subtotal |-> totalAmount,
         shippingCost |-> shippingCost,
         totalAmount |-> totalAmount + shippingCost,
         trackingNumber |-> Null,
         adminNotes |-> "",
         paymentStatus |-> "pending"]

\* Lines 147-164.
newOrder(payload, body, items) ==
    LET totalAmount == SumSeq([k \in 1..Len(items) |-> items[k].subtotal])
        shippingCost == shippingCostOf(totalAmount)
    IN  [id |-> Len(orders) + 1,
         userId |-> payload.id,
         items |-> items,
         paymentMethod |-> body.paymentMethod,
         status |-> "pending",
         subtotal |-> totalAmount,
         shippingCost |-> shippingCost,
         totalAmount |-> totalAmount + shippingCost,
         trackingNumber |-> Null,
         adminNotes |-> "",
         paymentStatus |-> "pending"]

\* Lines 46-197 for a verified caller: [status, code, products, orders].
createOrder(payload, body) ==
    LET items == body.items
        bad == {k \in 1..Len(items) : itemProblem(products, items[k]) # ""}
        keep == [status |-> 400, code |-> "", products |-> products, orders |-> orders]
    IN  IF items = <<>> THEN [keep EXCEPT !.code = "Order items are required"]
        ELSE IF addressProblem(body.shippingAddress) # ""
        THEN [keep EXCEPT !.code = addressProblem(body.shippingAddress)]
        ELSE IF body.paymentMethod = "" THEN [keep EXCEPT !.code = "Payment method is required"]
        ELSE IF body.paymentMethod \notin allowedPaymentMethods
        THEN [keep EXCEPT !.code = "Invalid payment method"]
        ELSE IF bad # {}
        THEN [keep EXCEPT !.code =
                 itemProblem(products, items[CHOOSE k \in bad : \A j \in bad : k <= j])]
        ELSE LET done == processedItems(products, items)
             IN  [status |-> 201, code |-> "",
                  products |-> decrementStocks(products, done),
                  orders |-> Append(orders, newOrder(payload, body, done))]

\* What the last request's record keeps of a cart: its length and the
\* positions of the lines that name no product of the catalog, name a
\* product that is not active, ask a quantity that is not positive, or ask
\* more than the product's stock (quantities are in half-units).
lineFails(prods, line) ==
    \/ line.quantity <= 0
    \/ \A i \in 1..Len(prods) : prods[i].id # line.productId
    \/ \E i \in 1..Len(prods) :
          /\ prods[i].id = line.productId
          /\ \A j \in 1..(i - 1) : prods[j].id # line.productId
          /\ (~prods[i].isActive \/ line.quantity > 2 * prods[i].stock)

cartSummary(prods, items) ==
    [lines |-> Len(items),
     failing |-> {k \in 1..Len(items) : lineFails(prods, items[k])}]

\* exports.handler of orders-create.js.
\* The store holds at most cap orders.
OrdersCreateUpTo(cap, clientIP, hdr, body) ==
    LET rl == utilsCheckRateLimit(rateLimitStore, clientIP, "order-create", 10, 60)
        auth == handlerAuth(hdr)
        res == IF ~rl.allowed
               THEN [status |-> 429, code |-> "", products |-> products, orders |-> orders]
               ELSE IF auth.status # 200
               THEN [status |-> auth.status, code |-> auth.code,
                     products |-> products, orders |-> orders]
               ELSE createOrder(Get(auth.payload), body)
    IN  /\ Len(orders) < cap
        /\ rateLimitStore' = rl.store
        /\ products' = res.products
        /\ orders' = res.orders
        /\ last' = [op |-> "orders-create", hdr |-> hdr, target |-> 0,
                    body |-> cartSummary(products, body.items),
                    status |-> res.status, code |-> res.code]
        /\ UNCHANGED <<users, files, now, env, utilsImpl, client, awaiting, cart>>

OrdersCreate(clientIP, hdr, body) == OrdersCreateUpTo(MaxOrders, clientIP, hdr, body)

----------------------------------------------------------------------------
(* Order engine: orders-manage.js *)

allowedStatuses ==
    {"pending", "confirmed", "processing", "shipped", "delivered", "cancelled"}

allowedPaymentStatuses == {"pending", "paid", "failed", "refunded"}

\* The table with an edge out of delivered.
statusTransitionsReturn(s) ==
    CASE s = "pending" -> {"confirmed", "cancelled"}
      [] s = "confirmed" -> {"processing", "cancelled"}
      [] s = "processing" -> {"shipped", "cancelled"}
      [] s = "shipped" -> {"delivered", "cancelled"}
      [] s = "delivered" -> {"cancelled"}
      [] OTHER -> {}

\* Lines 104-111.
statusTransitions(s) ==
    CASE s = "pending" -> {"confirmed", "cancelled"}
      [] s = "confirmed" -> {"processing", "cancelled"}
      [] s = "processing" -> {"shipped", "cancelled"}
      [] s = "shipped" -> {"delivered", "cancelled"}
      [] s = "delivered" -> {}
      [] s = "cancelled" -> {}
      [] OTHER -> {}

\* A restoration that adds one unit more than the item records.
restoreOneMore(prods, item) ==
    LET i == findProduct(prods, item.productId)
    IN  IF i = 0 THEN prods
        ELSE [prods EXCEPT ![i].stock = @ + item.quantity + 1]

\* Lines 127-132: one item's stock restoration.
restoreOne(prods, item) ==
    LET i == findProduct(prods, item.productId)
    IN  IF i = 0 THEN prods
        ELSE [prods EXCEPT ![i].stock = @ + item.quantity]

RECURSIVE restoreStocks(_, _)
restoreStocks(prods, items) ==
    IF items = <<>> THEN prods
    ELSE restoreStocks(restoreOne(prods, Head(items)), Tail(items))

\* The status block with the transition table asked also for a status
\* equal to the current one.
statusBlockStrict(existingOrder, status) ==
    IF status = None
    THEN [error |-> "", order |-> existingOrder, products |-> products, changed |-> FALSE]
    ELSE LET sanitizedStatus == sanitizeInput(toLowerCase(Get(status)))
             currentStatus == toLowerCase(existingOrder.status)
         IN  IF sanitizedStatus \notin allowedStatuses
             THEN [error |-> "Invalid status", order |-> existingOrder,
                   products |-> products, changed |-> FALSE]
             ELSE IF sanitizedStatus \notin statusTransitions(currentStatus)
             THEN [error |-> "Cannot change status", order |-> existingOrder,
                   products |-> products, changed |-> FALSE]
             ELSE IF currentStatus # sanitizedStatus
             THEN [error |-> "",
                   order |-> [existingOrder EXCEPT !.status = sanitizedStatus],
                   products |-> IF sanitizedStatus = "cancelled" /\ currentStatus # "cancelled"
                                THEN restoreStocks(products, existingOrder.items)
                                ELSE products,
                   changed |-> TRUE]
             ELSE [error |-> "", order |-> existingOrder, products |-> products,
                   changed |-> FALSE]

\* Lines 95-136, the status block: [error, order, products, changed].
statusBlock(existingOrder, status) ==
    IF status = None
    THEN [error |-> "", order |-> existingOrder, products |-> products, changed |-> FALSE]
    ELSE LET sanitizedStatus == sanitizeInput(toLowerCase(Get(status)))
             currentStatus == toLowerCase(existingOrder.status)
         IN  IF sanitizedStatus \notin allowedStatuses
             THEN [error |-> "Invalid status", order |-> existingOrder,
                   products |-> products, changed |-> FALSE]
             ELSE IF /\ currentStatus # sanitizedStatus
                     /\ sanitizedStatus \notin statusTransitions(currentStatus)
             THEN [error |-> "Cannot change status", order |-> existingOrder,
                   products |-> products, changed |-> FALSE]
             ELSE IF currentStatus # sanitizedStatus
             THEN [error |-> "",
                   order |-> [existingOrder EXCEPT !.status = sanitizedStatus],
                   products |-> IF sanitizedStatus = "cancelled" /\ currentStatus # "cancelled"
                                THEN restoreStocks(products, existingOrder.items)
                                ELSE products,
                   changed |-> TRUE]
             ELSE [error |-> "", order |-> existingOrder, products |-> products,
                   changed |-> FALSE]

\* Lines 139-146: [order, changed].
trackingBlock(existingOrder, updatedOrder, trackingNumber) ==
    IF trackingNumber = None THEN [order |-> updatedOrder, changed |-> FALSE]
    ELSE LET clean == sanitizeInput(Get(trackingNumber))
             sanitizedTrackingNumber == IF clean = "" THEN Null ELSE clean
         IN  IF existingOrder.trackingNumber # sanitizedTrackingNumber
             THEN [order |-> [updatedOrder EXCEPT !.trackingNumber = sanitizedTrackingNumber],
                   changed |-> TRUE]
             ELSE [order |-> updatedOrder, changed |-> FALSE]

\* Lines 149-162: [error, order, changed].
paymentBlock(existingOrder, updatedOrder, paymentStatus) ==
    IF paymentStatus = None
    THEN [error |-> "", order |-> updatedOrder, changed |-> FALSE]
    ELSE LET sanitizedPaymentStatus == sanitizeInput(toLowerCase(Get(paymentStatus)))
         IN  IF sanitizedPaymentStatus \notin allowedPaymentStatuses
             THEN [error |-> "Invalid payment status", order |-> updatedOrder,
                   changed |-> FALSE]
             ELSE IF existingOrder.paymentStatus # sanitizedPaymentStatus
             THEN [error |-> "",
                   order |-> [updatedOrder EXCEPT !.paymentStatus = sanitizedPaymentStatus],
                   changed |-> TRUE]
             ELSE [error |-> "", order |-> updatedOrder, changed |-> FALSE]

\* Lines 165-174: [order, changed].
notesBlock(existingOrder, updatedOrder, notes) ==
    IF notes = None THEN [order |-> updatedOrder, changed |-> FALSE]
    ELSE LET sanitizedNotes == sanitizeInput(Get(notes))
         IN  IF existingOrder.adminNotes # sanitizedNotes
             THEN [order |-> [updatedOrder EXCEPT !.adminNotes = sanitizedNotes],
                   changed |-> TRUE]
             ELSE [order |-> updatedOrder, changed |-> FALSE]

\* Lines 56-217 for an admin caller: [status, code, products, orders]. The
\* stock restoration of the status block acts on mockDB.products at once, so
\* it stays when a later block answers 400.
updateOrder(numOrderId, body) ==
    LET orderIndex == FindIndexById(orders, numOrderId)
    IN  IF orderIndex = 0
        THEN [status |-> 404, code |-> "ORDER_NOT_FOUND",
              products |-> products, orders |-> orders]
        ELSE
        LET existingOrder == orders[orderIndex]
            st == statusBlock(existingOrder, body.status)
            tr == trackingBlock(existingOrder, st.order, body.trackingNumber)
            pay == paymentBlock(existingOrder, tr.order, body.paymentStatus)
            nt == notesBlock(existingOrder, pay.order, body.notes)
            hasChanges == st.changed \/ tr.changed \/ pay.changed \/ nt.changed
        IN  IF st.error # ""
            THEN [status |-> 400, code |-> st.error,
                  products |-> products, orders |-> orders]
            ELSE IF pay.error # ""
            THEN [status |-> 400, code |-> pay.error,
                  products |-> st.products, orders |-> orders]
            ELSE IF ~hasChanges
            THEN [status |-> 400, code |-> "No valid changes provided",
                  products |-> st.products, orders |-> orders]
            ELSE [status |-> 200, code |-> "",
                  products |-> st.products,
                  orders |-> [orders EXCEPT ![orderIndex] = nt.order]]

\* exports.handler of orders-manage.js.
OrdersManage(clientIP, hdr, numOrderId, body) ==
    LET rl == utilsCheckRateLimit(rateLimitStore, clientIP, "order-manage", 20, 60)
        auth == handlerAuth(hdr)
        keep == [status |-> 0, code |-> "", products |-> products, orders |-> orders]
        res == IF ~rl.allowed THEN [keep EXCEPT !.status = 429]
               ELSE IF auth.status # 200
               THEN [keep EXCEPT !.status = auth.status, !.code = auth.code]
               ELSE IF handlerAdmin(Get(auth.payload)).status # 200
               THEN [keep EXCEPT !.status = handlerAdmin(Get(auth.payload)).status,
                                 !.code = handlerAdmin(Get(auth.payload)).code]
               ELSE updateOrder(numOrderId, body)
    IN  /\ \A i \in 1..Len(res.products) : res.products[i].stock <= StockCap
        /\ rateLimitStore' = rl.store
        /\ products' = res.products
        /\ orders' = res.orders
        /\ last' = [op |-> "orders-manage", hdr |-> hdr, target |-> numOrderId,
                    body |-> body, status |-> res.status, code |-> res.code]
        /\ UNCHANGED <<users, files, now, env, utilsImpl, client, awaiting, cart>>

----------------------------------------------------------------------------
(* Catalog: products-create.js, products-manage.js *)

\* String.prototype.length on the strings of the model.
strLength(s) ==
    CASE s = "" -> 0
      [] s = "x" -> 1
      [] s = "al" -> 2
      [] s = "bob" -> 3
      [] s = "alice" -> 5
      [] s = "admin" -> 5
      [] s = "Full Name" -> 9
      [] s = "phone" -> 5
      [] s = "Phone" -> 5
      [] s = "laptop" -> 6
      [] s = "LAPTOP" -> 6
      [] s = "camera" -> 6
      [] s = "too short" -> 9
      [] s = "Electronics" -> 11
      [] s = "a long description" -> 18
      [] OTHER -> 8

\* Lines 66-113 of products-create.js: "" when the body passes; the stock
\* is in half units.
createProductProblem(prods, body) ==
    IF body.name = "" \/ body.description = "" \/ body.price = 0 \/ body.category = ""
    THEN "Required fields"
    ELSE IF strLength(sanitizeInput(body.name)) < 2 \/ strLength(sanitizeInput(body.name)) > 100
    THEN "Product name length"
    ELSE IF \/ strLength(sanitizeInput(body.description)) < 10
            \/ strLength(sanitizeInput(body.description)) > 500
    THEN "Product description length"
    ELSE IF \/ strLength(sanitizeInput(body.category)) < 2
            \/ strLength(sanitizeInput(body.category)) > 50
    THEN "Category length"
    ELSE IF body.price < 0 THEN "Price"
    ELSE IF parseInt(body.stock) < 0 THEN "Stock"
    ELSE IF \E i \in 1..Len(prods) :
                toLowerCase(prods[i].name) = toLowerCase(sanitizeInput(body.name))
    THEN "PRODUCT_EXISTS"
    ELSE ""

\* Lines 115-130 of products-create.js.
newProduct(prods, body) ==
    [id |-> Len(prods) + 1,
     name |-> sanitizeInput(body.name),
     price |-> body.price,
     stock |-> parseInt(body.stock),
     isActive |-> TRUE]

\* exports.handler of products-create.js.
ProductsCreate(clientIP, hdr, body) ==
    LET rl == utilsCheckRateLimit(rateLimitStore, clientIP, "product-create", 10, 60)
        auth == handlerAuth(hdr)
        keep == [status |-> 0, code |-> "", products |-> products]
        res == IF ~rl.allowed THEN [keep EXCEPT !.status = 429]
               ELSE IF auth.status # 200
               THEN [keep EXCEPT !.status = auth.status, !.code = auth.code]
               ELSE IF handlerAdmin(Get(auth.payload)).status # 200
               THEN [keep EXCEPT !.status = handlerAdmin(Get(auth.payload)).status,
                                 !.code = handlerAdmin(Get(auth.payload)).code]
               ELSE IF createProductProblem(products, body) = "PRODUCT_EXISTS"
               THEN [keep EXCEPT !.status = 409, !.code = "PRODUCT_EXISTS"]
               ELSE IF createProductProblem(products, body) # ""
               THEN [keep EXCEPT !.status = 400, !.code = createProductProblem(products, body)]
               ELSE [status |-> 201, code |-> "",
                     products |-> Append(products, newProduct(products, body))]
    IN  /\ Len(products) < MaxProducts
        /\ rateLimitStore' = rl.store
        /\ products' = res.products
        /\ last' = [op |-> "products-create", hdr |-> hdr, target |-> 0, body |-> body,
                    status |-> res.status, code |-> res.code]
        /\ UNCHANGED <<users, orders, files, now, env, utilsImpl, client, awaiting, cart>>

\* Lines 111-191 of products-manage.js (PUT): [status, code, product]. The
\* description, category and image fields, which no order reads, are left
\* out of the product records.
updateProduct(prods, numProductId, existingProduct, body) ==
    LET nameGiven == IsSome(body.name)
        sanitizedName == IF nameGiven THEN sanitizeInput(Get(body.name)) ELSE ""
        duplicateName ==
            \E i \in 1..Len(prods) :
                /\ prods[i].id # numProductId
                /\ toLowerCase(prods[i].name) = toLowerCase(sanitizedName)
        withName == IF nameGiven THEN [existingProduct EXCEPT !.name = sanitizedName]
                    ELSE existingProduct
        withPrice == IF IsSome(body.price) THEN [withName EXCEPT !.price = Get(body.price)]
                     ELSE withName
        withStock == IF IsSome(body.stock)
                     THEN [withPrice EXCEPT !.stock = parseInt(Get(body.stock))]
                     ELSE withPrice
        withActive == IF IsSome(body.isActive)
                      THEN [withStock EXCEPT !.isActive = Get(body.isActive)]
                      ELSE withStock
        hasChanges == nameGiven \/ IsSome(body.price) \/ IsSome(body.stock)
                      \/ IsSome(body.isActive)
    IN  IF nameGiven /\ (strLength(sanitizedName) < 2 \/ strLength(sanitizedName) > 100)
        THEN [status |-> 400, code |-> "Product name length", product |-> existingProduct]
        ELSE IF nameGiven /\ duplicateName
        THEN [status |-> 409, code |-> "PRODUCT_NAME_EXISTS", product |-> existingProduct]
        ELSE IF IsSome(body.price) /\ Get(body.price) < 0
        THEN [status |-> 400, code |-> "Price", product |-> existingProduct]
        ELSE IF IsSome(body.stock) /\ parseInt(Get(body.stock)) < 0
        THEN [status |-> 400, code |-> "Stock", product |-> existingProduct]
        ELSE IF ~hasChanges
        THEN [status |-> 400, code |-> "No valid fields provided for update",
              product |-> existingProduct]
        ELSE [status |-> 200, code |-> "", product |-> withActive]

\* exports.handler of products-manage.js: PUT and DELETE.
ProductsManage(clientIP, hdr, method, numProductId, body) ==
    LET rl == utilsCheckRateLimit(rateLimitStore, clientIP, "product-manage", 20, 60)
        auth == handlerAuth(hdr)
        keep == [status |-> 0, code |-> "", products |-> products]
        productIndex == FindIndexById(products, numProductId)
        put == updateProduct(products, numProductId, products[productIndex], body)
        res == IF ~rl.allowed THEN [keep EXCEPT !.status = 429]
               ELSE IF auth.status # 200
               THEN [keep EXCEPT !.status = auth.status, !.code = auth.code]
               ELSE IF handlerAdmin(Get(auth.payload)).status # 200
               THEN [keep EXCEPT !.status = handlerAdmin(Get(auth.payload)).status,
                                 !.code = handlerAdmin(Get(auth.payload)).code]
               ELSE IF productIndex = 0
               THEN [keep EXCEPT !.status = 404, !.code = "PRODUCT_NOT_FOUND"]
               ELSE IF method = "DELETE"
               THEN [status |-> 200, code |-> "",
                     products |-> RemoveAt(products, productIndex)]
               ELSE [status |-> put.status, code |-> put.code,
                     products |-> [products EXCEPT ![productIndex] = put.product]]
    IN  /\ rateLimitStore' = rl.store
        /\ products' = res.products
        /\ last' = [op |-> "products-manage", hdr |-> hdr, target |-> numProductId,
                    body |-> [method |-> method, fields |-> body],
                    status |-> res.status, code |-> res.code]
        /\ UNCHANGED <<users, orders, files, now, env, utilsImpl, client, awaiting, cart>>

----------------------------------------------------------------------------
(* Initial state: mockDB as utils builds it, catalog scaled to one product *)


\* password is the text the stored bcrypt hash was made from.
adminUser ==
    [id |-> 1, username |-> "admin", email |-> "admin@alandstore.com",
     password |-> "admin123", role |-> "admin", isActive |-> TRUE, lastLogin |-> 0]

demoUser ==
    [id |-> 2, username |-> "user", email |-> "user@alandstore.com",
     password |-> "user123", role |-> "user", isActive |-> TRUE, lastLogin |-> 0]

\* data/users.json, data/products.json and data/orders.json of the Express
\* server, users.json holding the two accounts backend/create-demo-users.js
\* writes and the catalog cut down to one product.
initFiles ==
    [users |-> <<adminUser, demoUser>>,
     products |-> <<[id |-> 1, name |-> "phone", price |-> 60, stock |-> MaxStock]>>,
     orders |-> <<>>]

\* mockDB.products cut down to one product, its price scaled so that orders
\* fall on both sides of the free-shipping threshold (products-create accepts
\* any positive price). The products of utils carry no isActive field: it
\* reads as falsy.
initProducts ==
    <<[id |-> 1, name |-> "phone", price |-> 60, stock |-> MaxStock, isActive |-> FALSE]>>

noRequest ==
    [op |-> "none", hdr |-> None, target |-> 0, body |-> None, status |-> 0, code |-> ""]

\* The handlers that may run at once, and a slot that runs none.
Slots == {1, 2}

noHandler == [op |-> "none", body |-> None, read |-> <<>>, status |-> 0]

\* let cart = [], nothing saved, no cart function called yet.
emptyCart == [items |-> <<>>, saved |-> <<>>, op |-> <<"none", 0, 0>>]

\* The APIClient before any API call.
noCall ==
    [call |-> "none", method |-> "", retryCount |-> 0, sent |-> 0, delays |-> <<>>,
     state |-> "idle", error |-> ""]

InitDB ==
    /\ users = <<adminUser, demoUser>>
    /\ products = initProducts
    /\ orders = <<>>
    /\ rateLimitStore = <<>>
    /\ files = initFiles
    /\ now = 0
    /\ last = noRequest
    /\ client = noCall
    /\ awaiting = [slot \in Slots |-> noHandler]
    /\ cart = emptyCart

\* 'Bearer <token>' for the token login signs for user u at time t.
bearer(tok) == Some([bearers |-> 1, tok |-> Some(tok)])

adminHdr == bearer(signToken(adminUser, 0, DefaultJwtExpire))
userHdr == bearer(signToken(demoUser, 0, DefaultJwtExpire))

----------------------------------------------------------------------------
(* Spec: create order and the catalog behind a working token gateway *)

Init ==
    /\ InitDB
    /\ env = [dev |-> FALSE, JWT_EXPIRE |-> DefaultJwtExpire, variant |-> 1]
    /\ utilsImpl = "gateway"

LocalIP == "127.0.0.1"

\* Quantities 1, 1.5 and 0 of product 1, quantity 1 of product 2.
CartLines ==
    {[productId |-> 1, quantity |-> 2], [productId |-> 1, quantity |-> 3],
     [productId |-> 1, quantity |-> 0], [productId |-> 2, quantity |-> 2]}

Carts == UNION {[1..n -> CartLines] : n \in 1..MaxLines}

orderBody(c) == [items |-> c, shippingAddress |-> "valid", paymentMethod |-> "credit_card"]

oneLine == <<[productId |-> 1, quantity |-> 2]>>

CreateBodies ==
    {orderBody(c) : c \in Carts}
    \cup {orderBody(<<>>),
          [orderBody(oneLine) EXCEPT !.shippingAddress = "incomplete"],
          [orderBody(oneLine) EXCEPT !.paymentMethod = "bitcoin"]}

statusOnly(s) ==
    [status |-> Some(s), trackingNumber |-> None, paymentStatus |-> None, notes |-> None]

productBody(n, h) ==
    [name |-> n, description |-> "a long description", price |-> 40,
     category |-> "Electronics", stock |-> h]

noFields == [name |-> None, price |-> None, stock |-> None, isActive |-> None]

Next ==
    \/ \E body \in CreateBodies :
          OrdersCreate(LocalIP, userHdr, body)
    \/ \E id \in 1..MaxOrders :
          OrdersManage(LocalIP, adminHdr, id, statusOnly("cancelled"))
    \/ ProductsCreate(LocalIP, adminHdr, productBody("laptop", 2))
    \/ \E body \in {[noFields EXCEPT !.isActive = Some(TRUE)],
                    [noFields EXCEPT !.stock = Some(2)]} :
          ProductsManage(LocalIP, adminHdr, "PUT", 1, body)

Spec == Init /\ [][Next]_vars

----------------------------------------------------------------------------
(* Properties of create order, under Spec *)

C2_FailingLineAborts ==
    [][(last'.op = "orders-create" /\ last'.body.failing # {})
        => (last'.status >= 400 /\ orders' = orders /\ products' = products)]_vars

\* A two-line cart whose first line passes and whose second line fails was
\* refused by the line checks.
C2_Witness ==
    /\ last.op = "orders-create"
    /\ last.body.lines = 2
    /\ last.body.failing = {2}
    /\ last.status = 400
    /\ last.code \in {"Invalid item", "Product not found", "Insufficient stock"}

----------------------------------------------------------------------------
(* SpecManage: update order over orders of one-product carts *)

noOrderFields ==
    [status |-> None, trackingNumber |-> None, paymentStatus |-> None, notes |-> None]

ManageBodies ==
    {statusOnly(s) : s \in allowedStatuses \cup {"CANCELLED", "returned"}}
    \cup {[noOrderFields EXCEPT !.status = Some("cancelled"), !.notes = Some(" T1 ")],
          [noOrderFields EXCEPT !.status = Some("cancelled"), !.paymentStatus = Some("bogus")]}

NextManage ==
    \/ \E c \in {oneLine, oneLine \o oneLine} :
          OrdersCreate(LocalIP, userHdr, orderBody(c))
    \/ \E id \in 1..MaxOrders, body \in ManageBodies :
          OrdersManage(LocalIP, adminHdr, id, body)
    \/ ProductsManage(LocalIP, adminHdr, "PUT", 1, [noFields EXCEPT !.isActive = Some(TRUE)])
    \/ ProductsManage(LocalIP, adminHdr, "DELETE", 1, noFields)

SpecManage == Init /\ [][NextManage]_vars

\* The quantity an order's items record for product id.
RECURSIVE recordedQuantity(_, _)
recordedQuantity(items, id) ==
    IF items = <<>> THEN 0
    ELSE (IF Head(items).productId = id THEN Head(items).quantity ELSE 0)
         + recordedQuantity(Tail(items), id)

\* C3: a status change to cancelled from a status that is not cancelled adds
\* to each product that still exists exactly the quantity the order's items
\* record for it, and touches nothing else of the catalog; a request to
\* cancel an order that is already cancelled changes no stock, and when it
\* carries nothing but the status it changes no order either.
C3_CancelRestoresOnce ==
    [][\A i \in 1..Len(orders) :
          /\ (/\ Len(orders') = Len(orders)
              /\ orders[i].status # "cancelled"
              /\ orders'[i].status = "cancelled")
             => /\ Len(products') = Len(products)
                /\ \A p \in 1..Len(products) :
                      products'[p] =
                          [products[p] EXCEPT !.stock =
                              @ + (IF \A q \in 1..(p - 1) : products[q].id # products[p].id
                                   THEN recordedQuantity(orders[i].items, products[p].id)
                                   ELSE 0)]
          /\ (/\ last'.op = "orders-manage"
              /\ last'.target = orders[i].id
              /\ orders[i].status = "cancelled"
              /\ last'.body.status \in {Some("cancelled"), Some("CANCELLED")})
             => /\ products' = products
                /\ orders'[i].status = "cancelled"
                /\ (last'.body = statusOnly(Get(last'.body.status)) => orders' = orders)]_vars

\* A second, status-only cancel of a cancelled two-line order was answered
\* "No valid changes provided", the product holding the stock it held before
\* the order.
C3_Witness ==
    /\ last.op = "orders-manage" /\ last.status = 400
    /\ last.code = "No valid changes provided"
    /\ last.body = statusOnly("cancelled")
    /\ \E i \in 1..Len(orders) :
          /\ orders[i].id = last.target
          /\ orders[i].status = "cancelled"
          /\ Len(orders[i].items) = 2
    /\ \E p \in 1..Len(products) : products[p].stock = MaxStock

\* The table of the status changes an order may make.
C4_Edges(s) ==
    CASE s = "pending" -> {"confirmed", "cancelled"}
      [] s = "confirmed" -> {"processing", "cancelled"}
      [] s = "processing" -> {"shipped", "cancelled"}
      [] s = "shipped" -> {"delivered", "cancelled"}
      [] OTHER -> {}

\* C4: every status change update order stores is an edge of the table; a
\* request for a different status that is no edge is rejected and changes no
\* order; a delivered or cancelled order keeps its status.
C4_TransitionTable ==
    [][\A i \in 1..Len(orders) :
          /\ orders'[i].status # orders[i].status
             => orders'[i].status \in C4_Edges(orders[i].status)
          /\ orders[i].status \in {"delivered", "cancelled"}
             => orders'[i].status = orders[i].status
          /\ (/\ last'.op = "orders-manage"
              /\ last'.target = orders[i].id
              /\ IsSome(last'.body.status)
              /\ LET requested == sanitizeInput(toLowerCase(Get(last'.body.status)))
                 IN  /\ requested # orders[i].status
                     /\ requested \notin C4_Edges(orders[i].status))
             => (last'.status = 400 /\ orders' = orders)]_vars

\* A delivered order, reached along the table, refused a change to cancelled.
C4_Witness ==
    /\ last.op = "orders-manage" /\ last.status = 400
    /\ last.code = "Cannot change status"
    /\ last.body = statusOnly("cancelled")
    /\ \E i \in 1..Len(orders) :
          orders[i].id = last.target /\ orders[i].status = "delivered"

----------------------------------------------------------------------------
(* SpecRate: checkRateLimit called as the handlers call it, and the clock *)

\* Date.now() advances by step.
Tick(step) ==
    /\ now + step <= MaxTicks * step
    /\ now' = now + step
    /\ UNCHANGED <<users, products, orders, rateLimitStore, files, env, utilsImpl, last, client, awaiting, cart>>

\* The record of a call keeps, per key, the times of the latest RateMax
\* calls that were answered true.
historyOf(request) ==
    IF request.op = "checkRateLimit" THEN request.body.history ELSE <<>>

noteAllowed(history, key, t) ==
    LET h == Append(storedRequests(history, key), t)
    IN  storePut(history, key, IF Len(h) > RateMax THEN Tail(h) ELSE h)

\* if (!checkRateLimit(clientIP, endpoint, RateMax, RateWindow)) 429
CheckRateLimitCall(clientIP, endpoint) ==
    LET rl == utilsCheckRateLimit(rateLimitStore, clientIP, endpoint, RateMax, RateWindow)
        key == <<clientIP, endpoint>>
    IN  /\ rateLimitStore' = rl.store
        /\ last' = [op |-> "checkRateLimit", hdr |-> None, target |-> 0,
                    body |-> [clientIP |-> clientIP, endpoint |-> endpoint,
                              history |-> IF rl.allowed
                                          THEN noteAllowed(historyOf(last), key, now)
                                          ELSE historyOf(last)],
                    status |-> IF rl.allowed THEN 200 ELSE 429, code |-> ""]
        /\ UNCHANGED <<users, products, orders, files, now, env, utilsImpl, client, awaiting, cart>>

RemoteIP == "10.0.0.1"

InitRate ==
    /\ InitDB
    /\ env \in [dev : BOOLEAN, JWT_EXPIRE : {DefaultJwtExpire}, variant : {1, 2}]
    /\ utilsImpl = "utils"

NextRate ==
    \/ \E clientIP \in {RemoteIP, LocalIP} : CheckRateLimitCall(clientIP, "login")
    \/ Tick(1)

SpecRate == InitRate /\ [][NextRate]_vars

\* The step is a limiter call for key.
limiterCall(key) ==
    /\ now' = now
    /\ last'.op = "checkRateLimit"
    /\ key = <<last'.body.clientIP, last'.body.endpoint>>

\* C6 as stated: for every (caller address, endpoint) pair, after RateMax
\* allowed calls inside one window the next call inside that window is
\* refused, and a call made once the window has elapsed since the allowed
\* calls is allowed.
C6_EveryPairLimited ==
    [][\A clientIP \in {RemoteIP, LocalIP} :
          LET key == <<clientIP, "login">>
              times == storedRequests(historyOf(last), key)
          IN  limiterCall(key)
              => /\ (/\ Len(times) = RateMax
                     /\ \A k \in 1..Len(times) : times[k] > now - RateWindow)
                    => last'.status = 429
                 /\ (\A k \in 1..Len(times) : times[k] <= now - RateWindow)
                    => last'.status = 200]_vars

\* The limiter applies to the call: the second utils variant, or the first
\* outside development mode for an address that is neither local nor a
\* netlify one.
limiterApplies(clientIP) ==
    \/ env.variant = 2
    \/ (~env.dev /\ clientIP \notin {"localhost", "127.0.0.1", "::1", "deploy.netlify.app"})

\* C6, amended: the same, for the pairs the limiter applies to; every other
\* call is allowed and records nothing.
C6_LimitedPairs ==
    [][\A clientIP \in {RemoteIP, LocalIP} :
          LET key == <<clientIP, "login">>
              times == storedRequests(historyOf(last), key)
          IN  limiterCall(key)
              => IF limiterApplies(clientIP)
                 THEN /\ (/\ Len(times) = RateMax
                          /\ \A k \in 1..Len(times) : times[k] > now - RateWindow)
                         => (last'.status = 429 /\ rateLimitStore' = rateLimitStore)
                      /\ (\A k \in 1..Len(times) : times[k] <= now - RateWindow)
                         => last'.status = 200
                 ELSE last'.status = 200 /\ rateLimitStore' = rateLimitStore]_vars

\* A remote caller was refused after RateMax allowed calls, all inside the
\* window, and outside development mode.
C6_Witness ==
    /\ last.op = "checkRateLimit" /\ last.status = 429
    /\ last.body.clientIP = RemoteIP
    /\ env.variant = 1 /\ ~env.dev
    /\ LET times == storedRequests(last.body.history, <<RemoteIP, "login">>)
       IN  /\ Len(times) = RateMax
           /\ times[1] < now
           /\ \A k \in 1..Len(times) : times[k] > now - RateWindow

\* C17 as stated: a refused call leaves the timestamps recorded for its key
\* as they were, and an allowed call records exactly one timestamp, the
\* current time, after the timestamps of the window that were recorded.
C17_RefusedRecordsNothing ==
    [][\A clientIP \in {RemoteIP, LocalIP} :
          LET key == keyText(clientIP, "login")
              before == storedRequests(rateLimitStore, key)
              after == storedRequests(rateLimitStore', key)
          IN  limiterCall(<<clientIP, "login">>)
              => /\ last'.status = 429 => after = before
                 /\ last'.status = 200
                    => after = Append(validRequests(before, now - RateWindow), now)]_vars

\* C17, amended: the same for the calls the limiter applies to; a call it
\* does not apply to is allowed and records nothing.
C17_LimitedCallRecords ==
    [][\A clientIP \in {RemoteIP, LocalIP} :
          LET key == keyText(clientIP, "login")
              before == storedRequests(rateLimitStore, key)
              after == storedRequests(rateLimitStore', key)
          IN  limiterCall(<<clientIP, "login">>)
              => /\ last'.status = 429 => (after = before /\ limiterApplies(clientIP))
                 /\ (last'.status = 200 /\ limiterApplies(clientIP))
                    => after = Append(validRequests(before, now - RateWindow), now)
                 /\ (last'.status = 200 /\ ~limiterApplies(clientIP))
                    => after = before]_vars

\* A call of the remote caller was refused, RateMax earlier calls of the
\* window being recorded for its key.
C17_Witness ==
    /\ last.op = "checkRateLimit" /\ last.status = 429
    /\ last.body.clientIP = RemoteIP
    /\ LET recorded == storedRequests(rateLimitStore, keyText(RemoteIP, "login"))
       IN  /\ Len(recorded) = RateMax
           /\ \A k \in 1..Len(recorded) : recorded[k] > now - RateWindow
           /\ recorded[Len(recorded)] < now

----------------------------------------------------------------------------
(* Login (login.js) and the token checks called on a header *)

\* validateEmail of utils on the addresses of the model.
validateEmail(email) == email \notin {"", "not-an-email", "a b@x.com"}

\* users.find(u => u.email.toLowerCase() === email): its index, 0 when none.
findUserByEmail(us, email) ==
    IF \E i \in 1..Len(us) : toLowerCase(us[i].email) = email
    THEN CHOOSE i \in 1..Len(us) :
            /\ toLowerCase(us[i].email) = email
            /\ \A j \in 1..(i - 1) : toLowerCase(us[j].email) # email
    ELSE 0

\* An answer to an unknown email that names the cause.
unknownEmailAnswerNamed ==
    [status |-> 401, code |-> "USER_NOT_FOUND", message |-> "User not found"]

\* The answer to an email no user has.
unknownEmailAnswer ==
    [status |-> 401, code |-> "INVALID_CREDENTIALS", message |-> "Invalid email or password"]

\* The answer to a password that does not match the user's.
wrongPasswordAnswer ==
    [status |-> 401, code |-> "INVALID_CREDENTIALS", message |-> "Invalid email or password"]

\* Lines 43-105 of login.js: [status, code, message, users, token].
loginUser(body) ==
    LET sanitizedEmail == sanitizeInput(toLowerCase(body.email))
        i == findUserByEmail(users, sanitizedEmail)
        keep == [status |-> 400, code |-> "", message |-> "", users |-> users,
                 token |-> None]
        answer(a) == [keep EXCEPT !.status = a.status, !.code = a.code,
                                  !.message = a.message]
    IN  IF body.email = "" \/ body.password = ""
        THEN [keep EXCEPT !.code = "Email and password are required",
                          !.message = "Email and password are required"]
        ELSE IF ~validateEmail(body.email)
        THEN [keep EXCEPT !.code = "Invalid email format",
                          !.message = "Invalid email format"]
        ELSE IF i = 0
        THEN answer(unknownEmailAnswer)
        ELSE IF ~users[i].isActive
        THEN [keep EXCEPT !.status = 403, !.code = "ACCOUNT_DEACTIVATED",
                          !.message = "Account is deactivated"]
        ELSE IF body.password # users[i].password
        THEN answer(wrongPasswordAnswer)
        ELSE [status |-> 200, code |-> "", message |-> "Login successful",
              users |-> [users EXCEPT ![i].lastLogin = now],
              token |-> Some(signToken(users[i], now, env.JWT_EXPIRE))]

\* exports.handler of login.js.
Login(clientIP, body) ==
    LET rl == utilsCheckRateLimit(rateLimitStore, clientIP, "login", 10, 15)
        res == IF ~rl.allowed
               THEN [status |-> 429, code |-> "", message |-> "Too many login attempts",
                     users |-> users, token |-> None]
               ELSE loginUser(body)
    IN  /\ rateLimitStore' = rl.store
        /\ users' = res.users
        /\ last' = [op |-> "login", hdr |-> None, target |-> 0, body |-> body,
                    status |-> res.status, code |-> res.code, message |-> res.message,
                    token |-> res.token]
        /\ UNCHANGED <<products, orders, files, now, env, utilsImpl, client, awaiting, cart>>

\* verifyToken of utils applied to a header text.
VerifyTokenCall(hdr) ==
    LET res == IF hdr = None THEN [threw |-> TRUE, decoded |-> None]
               ELSE verifyToken(Get(hdr))
    IN  /\ last' = [op |-> "verifyToken", hdr |-> hdr, target |-> 0,
                    body |-> res.decoded, status |-> 0,
                    code |-> IF res.threw THEN "Token verification failed" ELSE "decoded"]
        /\ UNCHANGED <<users, products, orders, rateLimitStore, files, now, env, utilsImpl, client, awaiting, cart>>

----------------------------------------------------------------------------
(* Express server: token middleware, login, orders of the caller *)

\* verifyToken middleware: [status, code, user].
expressVerifyToken(hdr) ==
    LET deny(code) == [status |-> 401, code |-> code, user |-> None]
    IN  IF hdr = None \/ Get(hdr).bearers = 0 THEN deny("NO_TOKEN")
        ELSE LET token == stripBearer(Get(hdr))
             IN  IF isEmptyText(token) THEN deny("INVALID_TOKEN_FORMAT")
                 ELSE IF token.bearers > 0 \/ token.tok = None THEN deny("INVALID_TOKEN")
                 ELSE LET decoded == Get(token.tok)
                      IN  IF jwtVerify(decoded, now) = "TokenExpiredError"
                          THEN deny("TOKEN_EXPIRED")
                          ELSE IF jwtVerify(decoded, now) = "JsonWebTokenError"
                          THEN deny("INVALID_TOKEN")
                          ELSE IF decoded.id = 0 \/ decoded.email = ""
                          THEN deny("INVALID_PAYLOAD")
                          ELSE IF now - decoded.iat > MaxTokenAge
                          THEN deny("TOKEN_EXPIRED")
                          ELSE [status |-> 200, code |-> "",
                                user |-> Some(identityOf(decoded))]

\* verifyAdmin middleware with the guard left out.
verifyAdminOpen(user) == [status |-> 200, code |-> ""]

\* verifyAdmin middleware.
verifyAdmin(user) ==
    IF user.role # "admin"
    THEN [status |-> 403, code |-> "Akses ditolak. Admin only."]
    ELSE [status |-> 200, code |-> ""]

\* POST /api/login behind authLimiter; limited is the limiter's verdict.
ExpressLogin(limited, body) ==
    LET email == sanitizeInput(toLowerCase(body.email))
        i == findUserByEmail(files.users, email)
        keep == [status |-> 400, code |-> "", message |-> "", users |-> files.users,
                 token |-> None]
        answer(a) == [keep EXCEPT !.status = a.status, !.code = a.code,
                                  !.message = a.message]
        res == IF limited
               THEN [keep EXCEPT !.status = 429,
                                 !.message = "Too many authentication attempts"]
               ELSE IF ~validateEmail(body.email) \/ body.password = ""
               THEN [keep EXCEPT !.code = "Input validation failed",
                                 !.message = "Input validation failed"]
               ELSE IF i = 0
               THEN answer(unknownEmailAnswer)
               ELSE IF ~files.users[i].isActive
               THEN [keep EXCEPT !.status = 403, !.code = "ACCOUNT_DEACTIVATED",
                                 !.message = "Account is deactivated"]
               ELSE IF body.password # files.users[i].password
               THEN answer(wrongPasswordAnswer)
               ELSE [status |-> 200, code |-> "", message |-> "Login successful",
                     users |-> [files.users EXCEPT ![i].lastLogin = now],
                     token |-> Some(signToken(files.users[i], now, env.JWT_EXPIRE))]
    IN  /\ files' = [files EXCEPT !.users = res.users]
        /\ last' = [op |-> "express-login", hdr |-> None, target |-> 0, body |-> body,
                    status |-> res.status, code |-> res.code, message |-> res.message,
                    token |-> res.token]
        /\ UNCHANGED <<users, products, orders, rateLimitStore, now, env, utilsImpl, client, awaiting, cart>>

\* GET /api/orders: the orders of the caller.
ExpressOrdersGet(limited, hdr) ==
    LET auth == expressVerifyToken(hdr)
        res == IF limited THEN [status |-> 429, code |-> "", body |-> <<>>]
               ELSE IF auth.status # 200
               THEN [status |-> auth.status, code |-> auth.code, body |-> <<>>]
               ELSE [status |-> 200, code |-> "",
                     body |-> SelectSeq(files.orders,
                                        LAMBDA order : order.userId = Get(auth.user).id)]
    IN  /\ last' = [op |-> "express-orders-get", hdr |-> hdr, target |-> 0,
                    body |-> res.body, status |-> res.status, code |-> res.code]
        /\ UNCHANGED <<users, products, orders, rateLimitStore, files, now, env, utilsImpl, client, awaiting, cart>>

----------------------------------------------------------------------------
(* SpecAuth: tokens issued by login, presented later, under the utils as
   loaded by the handlers *)

TickMinutes == MaxTokenAge \div 2

InitAuth ==
    /\ InitDB
    /\ env \in [dev : {FALSE}, JWT_EXPIRE : {DefaultJwtExpire, ProductionJwtExpire},
                variant : {1}]
    /\ utilsImpl = "utils"

LoginBodies ==
    {[email |-> "user@alandstore.com", password |-> "user123"],
     [email |-> "ADMIN@ALANDSTORE.COM", password |-> "admin123"],
     [email |-> "user@alandstore.com", password |-> "wrong"]}

\* The headers a client holding the token of the last login can send.
presentedHeaders ==
    IF last.op \in {"login", "express-login"} /\ last.status = 200
    THEN {bearer(Get(last.token)),
          Some([bearers |-> 0, tok |-> last.token]),
          Some([bearers |-> 2, tok |-> last.token])}
    ELSE {None}

NextAuth ==
    \/ \E body \in LoginBodies : Login(LocalIP, body)
    \/ \E limited \in BOOLEAN :
          ExpressLogin(limited, [email |-> "user@alandstore.com", password |-> "user123"])
    \/ Tick(TickMinutes)
    \/ \E hdr \in presentedHeaders : VerifyTokenCall(hdr)
    \/ \E hdr \in presentedHeaders : OrdersCreate(LocalIP, hdr, orderBody(oneLine))
    \/ \E hdr \in presentedHeaders, limited \in BOOLEAN : ExpressOrdersGet(limited, hdr)
    \/ \E hdr \in presentedHeaders : OrdersManage(LocalIP, hdr, 1, statusOnly("confirmed"))

SpecAuth == InitAuth /\ [][NextAuth]_vars

\* The step presents, as 'Bearer <token>', a correctly signed token.
presentsToken(op, tok) ==
    /\ now' = now
    /\ last'.op = op
    /\ last' # last
    /\ last'.hdr = bearer(tok)
    /\ tok.sig = "secret"

\* The tokens login signs at the times of the model.
LoginTokens ==
    {signToken(u, t, e) : u \in {adminUser, demoUser},
                          t \in {k * TickMinutes : k \in 0..MaxTicks},
                          e \in {DefaultJwtExpire, ProductionJwtExpire}}

\* C7: token verification on a protected request rejects as expired every
\* token issued more than 24 hours ago, also when the token's own expiry
\* lies in the future; for the Express middleware (on a request the rate
\* limiter let through) and for utils verifyToken.
C7_OldTokenRejected ==
    [][\A tok \in LoginTokens :
          (now - tok.iat > MaxTokenAge)
          => /\ (presentsToken("express-orders-get", tok) /\ last'.status # 429)
                => (last'.status = 401 /\ last'.code = "TOKEN_EXPIRED")
             /\ presentsToken("verifyToken", tok)
                => last'.code = "Token verification failed"]_vars

\* C8: a token login issued for an active user, presented as
\* 'Bearer <token>' to create order before it expires, passes verification
\* with the identity of that user, so the request is neither answered 401
\* nor 500 and an order it stores carries the user's id.
C8_LoginTokenAccepted ==
    [][(/\ last.op = "login" /\ last.status = 200
        /\ presentsToken("orders-create", Get(last.token))
        /\ now < Get(last.token).exp)
       => /\ last'.status \notin {401, 500}
          /\ last'.status = 201 => orders'[Len(orders')].userId = Get(last.token).id]_vars

\* The header carries no token that verifies now: it is absent, not one
\* 'Bearer ' followed by a token, or its token is wrongly signed, expired
\* or without id or email.
invalidHeader(hdr) ==
    \/ hdr = None
    \/ Get(hdr).bearers # 1
    \/ Get(hdr).tok = None
    \/ LET tok == Get(Get(hdr).tok)
       IN  tok.sig # "secret" \/ now >= tok.exp \/ tok.id = 0 \/ tok.email = ""

\* C14: create order and update order answer 401, never 500, a request
\* whose token is absent, not in the Bearer scheme, malformed, wrongly
\* signed, expired or without identity fields, and the request leaves users,
\* products and orders unchanged.
C14_InvalidTokenIs401 ==
    [][(/\ now' = now
        /\ last'.op \in {"orders-create", "orders-manage"}
        /\ invalidHeader(last'.hdr))
       => /\ last'.status = 401
          /\ users' = users /\ products' = products /\ orders' = orders]_vars

----------------------------------------------------------------------------
(* Registration: register.js and POST /api/register *)

\* validatePassword of utils on the passwords of the model.
validatePassword(password) == password \in {"Passw0rd!", "passw0rd"}

\* The password rule of POST /api/register: lower, upper, digit and special.
expressPasswordOk(password) == password \in {"Passw0rd!"}

\* The existence check with the username comparison left out.
existingUserByEmailOnly(us, email, username) ==
    \E i \in 1..Len(us) : toLowerCase(us[i].email) = email

\* users.find(u => u.email.toLowerCase() === email
\*                 || u.username.toLowerCase() === username) !== undefined
existingUser(us, email, username) ==
    \E i \in 1..Len(us) :
        toLowerCase(us[i].email) = email \/ toLowerCase(us[i].username) = username

\* Lines 43-105 of register.js: [status, code, users].
registerUser(body) ==
    LET sanitizedUsername == sanitizeInput(toLowerCase(body.username))
        sanitizedEmail == sanitizeInput(toLowerCase(body.email))
        sanitizedFullName == sanitizeInput(body.fullName)
        keep == [status |-> 400, code |-> "", users |-> users]
    IN  IF body.username = "" \/ body.email = "" \/ body.password = "" \/ body.fullName = ""
        THEN [keep EXCEPT !.code = "All fields are required"]
        ELSE IF ~validateEmail(body.email)
        THEN [keep EXCEPT !.code = "Invalid email format"]
        ELSE IF ~validatePassword(body.password)
        THEN [keep EXCEPT !.code = "Invalid password"]
        ELSE IF strLength(sanitizedUsername) < 3 \/ strLength(sanitizedUsername) > 30
        THEN [keep EXCEPT !.code = "Username must be between 3-30 characters"]
        ELSE IF strLength(sanitizedFullName) < 2 \/ strLength(sanitizedFullName) > 100
        THEN [keep EXCEPT !.code = "Full name must be between 2-100 characters"]
        ELSE IF existingUser(users, sanitizedEmail, sanitizedUsername)
        THEN [keep EXCEPT !.status = 409, !.code = "USER_EXISTS"]
        ELSE [status |-> 201, code |-> "",
              users |-> Append(users,
                  [id |-> Len(users) + 1, username |-> sanitizedUsername,
                   email |-> sanitizedEmail, password |-> body.password,
                   role |-> "customer", isActive |-> TRUE, lastLogin |-> 0])]

\* exports.handler of register.js, run to completion.
Register(clientIP, body) ==
    LET rl == utilsCheckRateLimit(rateLimitStore, clientIP, "register", 3, 60)
        res == IF ~rl.allowed THEN [status |-> 429, code |-> "", users |-> users]
               ELSE registerUser(body)
    IN  /\ Len(users) < MaxUsers
        /\ rateLimitStore' = rl.store
        /\ users' = res.users
        /\ last' = [op |-> "register", hdr |-> None, target |-> 0, body |-> body,
                    status |-> res.status, code |-> res.code]
        /\ UNCHANGED <<products, orders, files, now, env, utilsImpl, client, awaiting, cart>>

\* Math.max(...users.map(u => u.id))
RECURSIVE maxId(_)
maxId(arr) ==
    IF arr = <<>> THEN 0
    ELSE LET m == maxId(Tail(arr))
         IN  IF Head(arr).id > m THEN Head(arr).id ELSE m

\* POST /api/register, run to completion: authLimiter (limited is its
\* verdict), the validators, the handler; written is writeUsers' answer.
ExpressRegister(limited, written, body) ==
    LET username == sanitizeInput(toLowerCase(body.username))
        \* normalizeEmail, then sanitizeInput(email.toLowerCase())
        email == sanitizeInput(toLowerCase(toLowerCase(body.email)))
        fsUsers == files.users
        keep == [status |-> 400, code |-> "", users |-> fsUsers]
        res == IF limited THEN [keep EXCEPT !.status = 429]
               ELSE IF \/ strLength(body.username) < 3 \/ strLength(body.username) > 30
                       \/ ~validateEmail(body.email)
                       \/ ~expressPasswordOk(body.password)
                       \/ strLength(body.fullName) < 2 \/ strLength(body.fullName) > 100
               THEN [keep EXCEPT !.code = "Input validation failed"]
               ELSE IF existingUser(fsUsers, email, username)
               THEN [keep EXCEPT !.status = 409, !.code = "USER_EXISTS"]
               ELSE IF ~written
               THEN [keep EXCEPT !.status = 500, !.code = "SAVE_ERROR"]
               ELSE [status |-> 201, code |-> "",
                     users |-> Append(fsUsers,
                         [id |-> IF Len(fsUsers) > 0 THEN maxId(fsUsers) + 1 ELSE 1,
                          username |-> username, email |-> email,
                          password |-> body.password, role |-> "user",
                          isActive |-> TRUE, lastLogin |-> 0])]
    IN  /\ Len(files.users) < MaxUsers
        /\ files' = [files EXCEPT !.users = res.users]
        /\ last' = [op |-> "express-register", hdr |-> None, target |-> 0, body |-> body,
                    status |-> res.status, code |-> res.code]
        /\ UNCHANGED <<users, products, orders, rateLimitStore, now, env, utilsImpl, client, awaiting, cart>>

----------------------------------------------------------------------------
(* SpecReg: registrations, one after the other *)

RegisterBodies ==
    [username : {"alice", "Alice", "Admin", "bob", "al"},
     email : {"alice@x.com", "Alice@X.com", "ADMIN@ALANDSTORE.COM", "BOB@X.COM"},
     password : {"Passw0rd!"},
     fullName : {"Full Name"}]
    \cup {[username |-> "Admin", email |-> "alice@x.com", password |-> "weak",
           fullName |-> "Full Name"]}

NextReg ==
    \/ \E body \in RegisterBodies : Register(LocalIP, body)
    \/ \E body \in RegisterBodies :
          \E flags \in {<<FALSE, TRUE>>, <<TRUE, TRUE>>, <<FALSE, FALSE>>} :
              ExpressRegister(flags[1], flags[2], body)

SpecReg == Init /\ [][NextReg]_vars

\* The request names an email or a username that a stored user has, case
\* ignored.
takenIn(store, body) ==
    \E i \in 1..Len(store) :
        \/ toLowerCase(store[i].email) = toLowerCase(body.email)
        \/ toLowerCase(store[i].username) = toLowerCase(body.username)

\* No two users of the store share an email or a username, case ignored.
uniqueUsers(store) ==
    \A i, k \in 1..Len(store) :
        i # k => /\ toLowerCase(store[i].email) # toLowerCase(store[k].email)
                 /\ toLowerCase(store[i].username) # toLowerCase(store[k].username)

\* C9: a registration whose email or username equals, case ignored, that of
\* an existing user leaves the user store unchanged and, once it has passed
\* the rate limiter and the field validation that precede the existence
\* check, is answered 409 USER_EXISTS; no two users of a store ever share an
\* email or a username, case ignored. For register.js and POST /api/register,
\* each request handled to completion before the next.
C9_DuplicateRejected ==
    /\ [](uniqueUsers(users) /\ uniqueUsers(files.users))
    /\ [][/\ (last'.op = "register" /\ takenIn(users, last'.body))
             => /\ users' = users
                /\ last'.status \in {400, 409, 429}
                /\ last'.status = 409 => last'.code = "USER_EXISTS"
          /\ (last'.op = "express-register" /\ takenIn(files.users, last'.body))
             => /\ files'.users = files.users
                /\ last'.status \in {400, 409, 429}
                /\ last'.status = 409 => last'.code = "USER_EXISTS"]_vars

\* A registration under an email that differs from a registered one only
\* in case was answered 409 USER_EXISTS.
C9_Witness ==
    /\ last.op = "register" /\ last.status = 409 /\ last.code = "USER_EXISTS"
    /\ last.body.email = "Alice@X.com" /\ last.body.username = "bob"
    /\ \E i \in 1..Len(users) : users[i].email = "alice@x.com"
    /\ Len(users) = 3

----------------------------------------------------------------------------
(* Order listing (serverless) and the Express catalog and order routes *)

\* parseInt of a query parameter: <<>> is NaN.
parseIntText(s) ==
    CASE s = "0" -> Some(0)
      [] s = "1" -> Some(1)
      [] s = "2" -> Some(2)
      [] s = "20" -> Some(20)
      [] s = "-1" -> Some(-1)
      [] s = "100" -> Some(100)
      [] s = "150" -> Some(150)
      [] s = "12abc" -> Some(12)
      [] OTHER -> None

\* parseInt(s) || d
parseIntOr(s, d) ==
    IF parseIntText(s) = None \/ Get(parseIntText(s)) = 0 THEN d ELSE Get(parseIntText(s))

Max2(a, b) == IF a >= b THEN a ELSE b
Min2(a, b) == IF a <= b THEN a ELSE b

\* The page size as the query gives it.
numLimitUnclamped(limit) == parseIntOr(limit, 20)

\* Math.max(1, Math.min(100, parseInt(limit) || 20))
numLimitOf(limit) == Max2(1, Min2(100, parseIntOr(limit, 20)))

\* Math.max(0, parseInt(offset) || 0)
numOffsetOf(offset) == Max2(0, parseIntOr(offset, 0))

allowedSortFields == {"createdAt", "updatedAt", "totalAmount", "status"}
allowedSortOrders == {"asc", "desc"}

\* The order of the status strings under < and >.
statusRank(s) ==
    CASE s = "cancelled" -> 1
      [] s = "confirmed" -> 2
      [] s = "delivered" -> 3
      [] s = "pending" -> 4
      [] s = "processing" -> 5
      [] s = "shipped" -> 6
      [] OTHER -> 7

\* a[sanitizedSortBy] as the comparator reads it; a field the order does
\* not have compares equal to everything.
sortValue(order, sortBy) ==
    CASE sortBy = "status" -> statusRank(toLowerCase(order.status))
      [] sortBy = "totalAmount" -> order.totalAmount
      [] OTHER -> 0

\* The comparator: a goes after b.
sortsAfter(a, b, sortBy, sortOrder) ==
    IF sortOrder = "desc"
    THEN sortValue(a, sortBy) < sortValue(b, sortBy)
    ELSE sortValue(a, sortBy) > sortValue(b, sortBy)

\* Array.prototype.sort with that comparator (a stable sort).
RECURSIVE insertSorted(_, _, _, _)
insertSorted(sorted, order, sortBy, sortOrder) ==
    IF sorted = <<>> THEN <<order>>
    ELSE IF sortsAfter(sorted[Len(sorted)], order, sortBy, sortOrder)
    THEN Append(insertSorted(SubSeq(sorted, 1, Len(sorted) - 1), order, sortBy, sortOrder),
                sorted[Len(sorted)])
    ELSE Append(sorted, order)

RECURSIVE sortOrders(_, _, _)
sortOrders(arr, sortBy, sortOrder) ==
    IF arr = <<>> THEN <<>>
    ELSE insertSorted(sortOrders(SubSeq(arr, 1, Len(arr) - 1), sortBy, sortOrder),
                      arr[Len(arr)], sortBy, sortOrder)

\* Array.prototype.slice(from, to) for 0 <= from.
slice(arr, from, to) == SubSeq(arr, from + 1, Min2(to, Len(arr)))

\* A listing that is not scoped to the caller.
ordersOfAnyone(arr, id) == arr

\* mockDB.orders.filter(order => order.userId === decoded.payload.id)
ordersOf(arr, id) == SelectSeq(arr, LAMBDA order : order.userId = id)

\* The orders handler after the token check, for a verified caller:
\* [status, code, body]; body is the page of orders answered.
listOrders(payload, query) ==
    LET isAdminRequest == query.adminView = "true"
        isAdmin == checkAdminRole(payload)
        sanitizedStatus == sanitizeInput(toLowerCase(query.status))
        sanitizedSortBy == sanitizeInput(toLowerCase(query.sortBy))
        sanitizedSortOrder == sanitizeInput(toLowerCase(query.sortOrder))
        numLimit == numLimitOf(query.limit)
        numOffset == numOffsetOf(query.offset)
        scoped == IF isAdminRequest /\ isAdmin THEN orders ELSE ordersOf(orders, payload.id)
        filtered == IF sanitizedStatus = "" THEN scoped
                    ELSE SelectSeq(scoped,
                           LAMBDA order : toLowerCase(order.status) = sanitizedStatus)
        sorted == sortOrders(filtered, sanitizedSortBy, sanitizedSortOrder)
        none == [status |-> 400, code |-> "", body |-> <<>>]
    IN  IF isAdminRequest /\ ~isAdmin
        THEN [none EXCEPT !.status = 403, !.code = "ADMIN_REQUIRED"]
        ELSE IF sanitizedSortBy \notin allowedSortFields
        THEN [none EXCEPT !.code = "Invalid sort field"]
        ELSE IF sanitizedSortOrder \notin allowedSortOrders
        THEN [none EXCEPT !.code = "Invalid sort order"]
        ELSE IF sanitizedStatus # "" /\ sanitizedStatus \notin allowedStatuses
        THEN [none EXCEPT !.code = "Invalid status filter"]
        ELSE [status |-> 200, code |-> "",
              body |-> slice(sorted, numOffset, numOffset + numLimit)]

\* exports.handler of the orders function: the rate limiter, the token
\* check, then the listing. The record of the request keeps the stored
\* records of the orders answered.
OrdersList(clientIP, hdr, query) ==
    LET rl == utilsCheckRateLimit(rateLimitStore, clientIP, "orders", 50, 1)
        auth == handlerAuth(hdr)
        role == handlerAdmin(Get(auth.payload))
        res == IF ~rl.allowed THEN [status |-> 429, code |-> "", body |-> <<>>]
               ELSE IF auth.status # 200
               THEN [status |-> auth.status, code |-> auth.code, body |-> <<>>]
               ELSE IF role.status = 500
               THEN [status |-> 500, code |-> role.code, body |-> <<>>]
               ELSE listOrders(Get(auth.payload), query)
    IN  /\ rateLimitStore' = rl.store
        /\ last' = [op |-> "orders-list", hdr |-> hdr, target |-> 0,
                    body |-> [adminView |-> query.adminView = "true", query |-> query,
                              orders |-> res.body],
                    status |-> res.status, code |-> res.code]
        /\ UNCHANGED <<users, products, orders, files, now, env, utilsImpl, client, awaiting, cart>>

\* The query of a listing sorted by status, for the caller or for all.
listQuery(adminView) ==
    [status |-> "", limit |-> "20", offset |-> "0", sortBy |-> "status",
     sortOrder |-> "desc", adminView |-> IF adminView THEN "true" ELSE "false"]

\* The front of an admin route: generalLimiter (limited is its verdict),
\* verifyToken, verifyAdmin.
expressAdminGate(limited, hdr) ==
    LET auth == expressVerifyToken(hdr)
    IN  IF limited THEN [status |-> 429, code |-> ""]
        ELSE IF auth.status # 200 THEN [status |-> auth.status, code |-> auth.code]
        ELSE verifyAdmin(Get(auth.user))

\* An Express route answers res and leaves fs as the stored files.
expressAnswer(op, hdr, target, body, res, fs) ==
    /\ files' = fs
    /\ last' = [op |-> op, hdr |-> hdr, target |-> target, body |-> body,
                status |-> res.status, code |-> res.code]
    /\ UNCHANGED <<users, products, orders, rateLimitStore, now, env, utilsImpl, client, awaiting, cart>>

\* POST /api/products; limited is "general", "admin" or "none", the limiter
\* that refuses. The validators on name, price and stock; the category and
\* the description of the request are valid ones.
ExpressProductsPost(limited, hdr, body) ==
    LET front == expressAdminGate(limited = "general", hdr)
        gate == IF front.status = 200 /\ limited = "admin"
                THEN [status |-> 429, code |-> ""] ELSE front
        fsProducts == files.products
        invalid == \/ strLength(body.name) < 2 \/ strLength(body.name) > 200
                   \/ body.price < 1
                   \/ body.stock < 0 \/ body.stock % 2 # 0
        newProduct_ == [id |-> IF Len(fsProducts) > 0 THEN maxId(fsProducts) + 1 ELSE 1,
                        name |-> body.name, price |-> body.price,
                        stock |-> parseInt(body.stock)]
    IN  /\ Len(files.products) < MaxProducts
        /\ IF gate.status # 200 THEN expressAnswer("express-products-post", hdr, 0, body, gate, files)
           ELSE IF invalid
           THEN expressAnswer("express-products-post", hdr, 0, body,
                              [status |-> 400, code |-> "Input validation failed"], files)
           ELSE expressAnswer("express-products-post", hdr, 0, body,
                              [status |-> 201, code |-> ""],
                              [files EXCEPT !.products = Append(fsProducts, newProduct_)])

\* PUT /api/products/:id with a JSON body.
ExpressProductsPut(limited, hdr, id, body) ==
    LET gate == expressAdminGate(limited, hdr)
        productIndex == FindIndexById(files.products, id)
        old == files.products[productIndex]
        updated == [old EXCEPT
                       !.name = IF IsSome(body.name) /\ Get(body.name) # ""
                                THEN Get(body.name) ELSE @,
                       !.price = IF IsSome(body.price) /\ Get(body.price) # 0
                                 THEN Get(body.price) ELSE @,
                       !.stock = IF IsSome(body.stock) /\ Get(body.stock) # 0
                                 THEN parseInt(Get(body.stock)) ELSE @]
    IN  IF gate.status # 200 THEN expressAnswer("express-products-put", hdr, id, body, gate, files)
        ELSE IF productIndex = 0
        THEN expressAnswer("express-products-put", hdr, id, body,
                           [status |-> 404, code |-> "Produk tidak ditemukan"], files)
        ELSE expressAnswer("express-products-put", hdr, id, body,
                           [status |-> 200, code |-> ""],
                           [files EXCEPT !.products[productIndex] = updated])

\* DELETE /api/products/:id.
ExpressProductsDelete(limited, hdr, id) ==
    LET gate == expressAdminGate(limited, hdr)
        productIndex == FindIndexById(files.products, id)
    IN  IF gate.status # 200
        THEN expressAnswer("express-products-delete", hdr, id, None, gate, files)
        ELSE IF productIndex = 0
        THEN expressAnswer("express-products-delete", hdr, id, None,
                           [status |-> 404, code |-> "Produk tidak ditemukan"], files)
        ELSE expressAnswer("express-products-delete", hdr, id, None,
                           [status |-> 200, code |-> ""],
                           [files EXCEPT !.products = RemoveAt(files.products, productIndex)])

\* POST /api/orders: the order is stored as sent.
ExpressOrdersPost(limited, hdr, body) ==
    LET auth == expressVerifyToken(hdr)
        newOrder_ == [id |-> Len(files.orders) + 1, userId |-> Get(auth.user).id,
                      items |-> body.items, totalAmount |-> body.totalAmount,
                      status |-> "pending"]
    IN  /\ Len(files.orders) < MaxOrders
        /\ IF limited
           THEN expressAnswer("express-orders-post", hdr, 0, body,
                              [status |-> 429, code |-> ""], files)
           ELSE IF auth.status # 200
           THEN expressAnswer("express-orders-post", hdr, 0, body, auth, files)
           ELSE expressAnswer("express-orders-post", hdr, 0, body,
                              [status |-> 201, code |-> ""],
                              [files EXCEPT !.orders = Append(files.orders, newOrder_)])

\* GET /api/admin/orders.
ExpressAdminOrders(limited, hdr) ==
    LET gate == expressAdminGate(limited, hdr)
    IN  expressAnswer("express-admin-orders", hdr, 0,
                      IF gate.status = 200 THEN files.orders ELSE <<>>,
                      gate, files)

----------------------------------------------------------------------------
(* SpecAdmin: the admin-only operations called by the admin and by a user *)

Callers == {adminHdr, userHdr}

AdminUpdates ==
    {statusOnly("confirmed"),
     [noOrderFields EXCEPT !.trackingNumber = Some(" T1 "), !.paymentStatus = Some("PAID")]}

expressProductBody == [name |-> "laptop", price |-> 40, stock |-> 2]

expressProductUpdate == [name |-> None, price |-> Some(50), stock |-> None]

expressOrderBody == [items |-> oneLine, totalAmount |-> 60]

\* The admin activates the product, updates orders and reprices; the user
\* orders, and calls every admin-only operation.
NextAdmin ==
    \/ OrdersCreate(LocalIP, userHdr, orderBody(oneLine))
    \/ \E hdr \in Callers, body \in AdminUpdates : OrdersManage(LocalIP, hdr, 1, body)
    \/ ProductsCreate(LocalIP, userHdr, productBody("laptop", 2))
    \/ \E hdr \in Callers :
          ProductsManage(LocalIP, hdr, "PUT", 1, [noFields EXCEPT !.isActive = Some(TRUE)])
    \/ ProductsManage(LocalIP, userHdr, "DELETE", 1, noFields)
    \/ \E hdr \in Callers, adminView \in BOOLEAN :
          OrdersList(LocalIP, hdr, listQuery(adminView))
    \/ ExpressOrdersPost(FALSE, userHdr, expressOrderBody)
    \/ \E limited \in {"none", "general", "admin"} :
          ExpressProductsPost(limited, userHdr, expressProductBody)
    \/ \E hdr \in Callers, limited \in BOOLEAN :
          ExpressProductsPut(limited, hdr, 1, expressProductUpdate)
    \/ \E limited \in BOOLEAN : ExpressProductsDelete(limited, userHdr, 1)
    \/ \E hdr \in Callers, limited \in BOOLEAN : ExpressAdminOrders(limited, hdr)

SpecAdmin == Init /\ [][NextAdmin]_vars

AdminOnlyOps ==
    {"orders-manage", "products-create", "products-manage",
     "express-products-post", "express-products-put", "express-products-delete",
     "express-admin-orders"}

\* The header carries a token that verifies now and names a role other than
\* admin.
verifiedNonAdmin(hdr) ==
    /\ IsSome(hdr)
    /\ Get(hdr).bearers = 1 /\ IsSome(Get(hdr).tok)
    /\ LET tok == Get(Get(hdr).tok)
       IN  /\ tok.sig = "secret" /\ now < tok.exp /\ now - tok.iat <= MaxTokenAge
           /\ tok.id # 0 /\ tok.email # ""
           /\ tok.role # "admin"

\* The fields of the stored orders that only an admin's update may change.
adminFields(arr) ==
    [i \in 1..Len(arr) |-> <<arr[i].status, arr[i].paymentStatus, arr[i].trackingNumber>>]

----------------------------------------------------------------------------
(* Order listing: callers with orders of their own and of others *)

MaxListed == 2

baseQuery == listQuery(FALSE)

\* Listings of the caller's orders and of all orders, whole and by pages of
\* one, with and without a status filter; then one query per remaining
\* parameter value.
ListQueries ==
    {[baseQuery EXCEPT !.status = s, !.limit = l, !.adminView = a] :
        s \in {"", "pending"}, l \in {"20", "1"}, a \in {"true", "false"}}
    \cup {[baseQuery EXCEPT !.limit = "1", !.offset = "1"],
          [baseQuery EXCEPT !.sortBy = "createdAt"],
          [baseQuery EXCEPT !.sortOrder = "asc"],
          [baseQuery EXCEPT !.sortOrder = "DESC", !.limit = "abc", !.offset = "-1"],
          [baseQuery EXCEPT !.status = "bogus"]}

\* The admin activates the product and confirms the first order; the admin
\* and the user order, and list.
NextList ==
    \/ ProductsManage(LocalIP, adminHdr, "PUT", 1, [noFields EXCEPT !.isActive = Some(TRUE)])
    \/ \E hdr \in Callers : OrdersCreateUpTo(MaxListed, LocalIP, hdr, orderBody(oneLine))
    \/ OrdersManage(LocalIP, adminHdr, 1, statusOnly("confirmed"))
    \/ \E hdr \in Callers, query \in ListQueries : OrdersList(LocalIP, hdr, query)
    \/ \E hdr \in Callers : ExpressOrdersPost(FALSE, hdr, expressOrderBody)
    \/ \E hdr \in Callers : ExpressOrdersGet(FALSE, hdr)

SpecList == Init /\ [][NextList]_vars

C16_OrderIdsSequential ==
    /\ [](\A i \in 1..Len(orders) : orders[i].id = i)
    /\ [][/\ Len(orders') >= Len(orders)
          /\ \A i \in 1..Len(orders) : orders'[i].id = orders[i].id]_vars

\* Two orders are stored, the first one updated after the second was
\* created.
C16_Witness ==
    /\ Len(orders) = MaxListed
    /\ orders[1].status = "confirmed"
    /\ last.op = "orders-manage" /\ last.status = 200
    /\ orders[1].id # orders[Len(orders)].id

----------------------------------------------------------------------------
(* Catalog changes next to stored orders *)

secondLine == <<[productId |-> 2, quantity |-> 2]>>

CatalogUpdates ==
    {[noFields EXCEPT !.isActive = Some(TRUE)],
     [noFields EXCEPT !.price = Some(50), !.name = Some("tablet")]}

\* The admin creates, activates, renames and reprices, and deletes
\* products; the user orders product 1 or product 2.
NextCatalog ==
    \/ \E n \in {"laptop", "camera"} : ProductsCreate(LocalIP, adminHdr, productBody(n, 2))
    \/ \E body \in CatalogUpdates : ProductsManage(LocalIP, adminHdr, "PUT", 1, body)
    \/ \E id \in 1..MaxProducts : ProductsManage(LocalIP, adminHdr, "DELETE", id, noFields)
    \/ \E c \in {oneLine, secondLine} : OrdersCreate(LocalIP, userHdr, orderBody(c))

SpecCatalog == Init /\ [][NextCatalog]_vars

\* C12: after any sequence of product creations and deletions no two
\* products of the catalog have the same id.
C12_UniqueProductIds ==
    \A i, j \in 1..Len(products) : products[i].id = products[j].id => i = j

\* The name and the price each item of an order records.
snapshotOf(order) ==
    [k \in 1..Len(order.items) |-> <<order.items[k].productName, order.items[k].price>>]

\* C15: the name and the price on the items of an order are those of the
\* ordered product when the order was created, and no later request
\* (product update, product deletion, product creation) changes them.
C15_ItemSnapshot ==
    [][/\ Len(orders') >= Len(orders)
       /\ \A i \in 1..Len(orders) : snapshotOf(orders'[i]) = snapshotOf(orders[i])
       /\ Len(orders') > Len(orders)
          => LET order == orders'[Len(orders')]
             IN  \A k \in 1..Len(order.items) :
                    LET p == findProduct(products, order.items[k].productId)
                    IN  /\ p # 0
                        /\ order.items[k].productName = products[p].name
                        /\ order.items[k].price = products[p].price]_vars

\* An order of product 1 at price 60 is stored, and the product has since
\* been renamed and repriced.
C15_Witness ==
    /\ Len(orders) = 1
    /\ orders[1].items[1].productId = 1
    /\ orders[1].items[1].price = 60 /\ orders[1].items[1].productName = "phone"
    /\ last.op = "products-manage" /\ last.status = 200
    /\ \E p \in 1..Len(products) :
          products[p].id = 1 /\ products[p].price = 50 /\ products[p].name = "tablet"

----------------------------------------------------------------------------
(* Login attempts with known and unknown emails *)

CredentialBodies ==
    {[email |-> "user@alandstore.com", password |-> "user123"],
     [email |-> "user@alandstore.com", password |-> "wrong"],
     [email |-> "ADMIN@ALANDSTORE.COM", password |-> "wrong"],
     [email |-> "nobody@x.com", password |-> "user123"],
     [email |-> "nobody@x.com", password |-> "wrong"],
     [email |-> "not-an-email", password |-> "user123"],
     [email |-> "user@alandstore.com", password |-> ""]}

NextLogin ==
    \/ \E body \in CredentialBodies : Login(LocalIP, body)
    \/ \E limited \in BOOLEAN, body \in CredentialBodies : ExpressLogin(limited, body)
    \/ Tick(1)

SpecLogin == Init /\ [][NextLogin]_vars

\* The email of the attempt is that of a user of the store the attempt
\* reads.
emailKnown(request) ==
    LET us == IF request.op = "login" THEN users ELSE files.users
    IN  \E i \in 1..Len(us) :
           toLowerCase(us[i].email) = sanitizeInput(toLowerCase(request.body.email))

\* The password of the attempt is that of the user with the email.
passwordRight(request) ==
    LET us == IF request.op = "login" THEN users ELSE files.users
    IN  \E i \in 1..Len(us) :
           /\ toLowerCase(us[i].email) = sanitizeInput(toLowerCase(request.body.email))
           /\ us[i].password = request.body.password

\* C13: a login attempt that passes the rate limiter and the input
\* validation is answered 401, INVALID_CREDENTIALS and the message "Invalid
\* email or password" both when no user has the email and when a user has
\* it and the password is wrong: the three are the same in the two cases.
C13_SameAnswer ==
    [][(/\ last'.op \in {"login", "express-login"}
        /\ last'.status \notin {429, 400}
        /\ ~(emailKnown(last') /\ passwordRight(last')))
       => /\ last'.status = 401
          /\ last'.code = "INVALID_CREDENTIALS"
          /\ last'.message = "Invalid email or password"
          /\ \A other \in {"login", "express-login"} :
                (last.op = other /\ last.status = 401)
                => <<last'.status, last'.code, last'.message>>
                      = <<last.status, last.code, last.message>>]_vars

\* An attempt with an email no user has was answered 401 after the user
\* had logged in at an earlier time.
C13_Witness ==
    /\ last.op = "login" /\ last.status = 401
    /\ last.body.email = "nobody@x.com"
    /\ ~emailKnown(last)
    /\ \E i \in 1..Len(users) : users[i].lastLogin > 0 /\ users[i].lastLogin < now

----------------------------------------------------------------------------
(* Rate limiter: several keys *)

\* A caller address that ends like a key.
CraftedIP == "10.0.0.1:login"

KeyCallers == {<<RemoteIP, "login">>, <<RemoteIP, "register">>, <<CraftedIP, "register">>}

\* The remote caller calls on two endpoints; the crafted address calls
\* once the clock has reached its last tick.
NextKeys ==
    \/ \E endpoint \in {"login", "register"} : CheckRateLimitCall(RemoteIP, endpoint)
    \/ now = MaxTicks /\ CheckRateLimitCall(CraftedIP, "register")
    \/ Tick(1)

SpecKeys == InitRate /\ [][NextKeys]_vars

\* C18: a checkRateLimit call for one (caller address, endpoint) pair
\* leaves the timestamps recorded for every other pair as they were, and
\* with them the answer a call for the other pair gets; no two pairs share
\* a key.
C18_KeysIndependent ==
    [][\A k \in KeyCallers :
          limiterCall(k)
          => \A other \in KeyCallers \ {k} :
                /\ keyText(other[1], other[2]) # keyText(k[1], k[2])
                /\ storedRequests(rateLimitStore', keyText(other[1], other[2]))
                      = storedRequests(rateLimitStore, keyText(other[1], other[2]))
                /\ utilsCheckRateLimit(rateLimitStore', other[1], other[2],
                                       RateMax, RateWindow).allowed
                      = utilsCheckRateLimit(rateLimitStore, other[1], other[2],
                                            RateMax, RateWindow).allowed]_vars

\* The remote caller was allowed on register while refused on login: its
\* login key holds RateMax timestamps of the window.
C18_Witness ==
    /\ last.op = "checkRateLimit" /\ last.status = 200
    /\ last.body.clientIP = RemoteIP /\ last.body.endpoint = "register"
    /\ LET recorded == storedRequests(rateLimitStore, keyText(RemoteIP, "login"))
       IN  /\ Len(recorded) = RateMax
           /\ \A i \in 1..Len(recorded) : recorded[i] > now - RateWindow
    /\ ~utilsCheckRateLimit(rateLimitStore, RemoteIP, "login", RateMax, RateWindow).allowed

----------------------------------------------------------------------------
(* Update order: which requests count as a change *)

ChangeBodies ==
    {noOrderFields,
     statusOnly("pending"), statusOnly("confirmed"), statusOnly("CANCELLED"),
     statusOnly("delivered"),
     [noOrderFields EXCEPT !.status = Some("pending"), !.trackingNumber = Some(" T1 ")],
     [noOrderFields EXCEPT !.status = Some("CANCELLED"), !.notes = Some("<T1>")],
     [noOrderFields EXCEPT !.trackingNumber = Some(" T1 ")],
     [noOrderFields EXCEPT !.trackingNumber = Some("  ")],
     [noOrderFields EXCEPT !.paymentStatus = Some("PAID")],
     [noOrderFields EXCEPT !.paymentStatus = Some("pending")],
     [noOrderFields EXCEPT !.notes = Some(" T1 ")],
     [noOrderFields EXCEPT !.notes = Some("<>")]}

NextChanges ==
    \/ ProductsManage(LocalIP, adminHdr, "PUT", 1, [noFields EXCEPT !.isActive = Some(TRUE)])
    \/ OrdersCreate(LocalIP, userHdr, orderBody(oneLine))
    \/ \E id \in 1..MaxOrders, body \in ChangeBodies : OrdersManage(LocalIP, adminHdr, id, body)

SpecChanges == Init /\ [][NextChanges]_vars

\* The fields of an update order request whose value, once sanitized
\* (trimmed, lower-cased for status and paymentStatus, an empty
\* trackingNumber read as null), is not the order's current one.
differingFields(order, body) ==
    {f \in {"status", "trackingNumber", "paymentStatus", "notes"} :
        /\ IsSome(body[f])
        /\ CASE f = "status" ->
                  sanitizeInput(toLowerCase(Get(body.status))) # toLowerCase(order.status)
             [] f = "trackingNumber" ->
                  (IF sanitizeInput(Get(body.trackingNumber)) = "" THEN Null
                   ELSE sanitizeInput(Get(body.trackingNumber))) # order.trackingNumber
             [] f = "paymentStatus" ->
                  sanitizeInput(toLowerCase(Get(body.paymentStatus))) # order.paymentStatus
             [] f = "notes" -> sanitizeInput(Get(body.notes)) # order.adminNotes}

----------------------------------------------------------------------------
(* Cancelling an order after its products were deleted *)

bothLines == oneLine \o secondLine

NextRestock ==
    \/ ProductsManage(LocalIP, adminHdr, "PUT", 1, [noFields EXCEPT !.isActive = Some(TRUE)])
    \/ \E n \in {"laptop", "camera"} : ProductsCreate(LocalIP, adminHdr, productBody(n, 2))
    \/ \E id \in 1..MaxProducts : ProductsManage(LocalIP, adminHdr, "DELETE", id, noFields)
    \/ \E c \in {secondLine, bothLines} : OrdersCreate(LocalIP, userHdr, orderBody(c))
    \/ \E id \in 1..MaxOrders : OrdersManage(LocalIP, adminHdr, id, statusOnly("cancelled"))

SpecRestock == Init /\ [][NextRestock]_vars

\* No product is renamed in SpecRestock, so the product an item referenced
\* at order time is the one that bears the item's productId and the name
\* the item recorded.
referencedBy(order, product) ==
    \E k \in 1..Len(order.items) :
        /\ order.items[k].productId = product.id
        /\ order.items[k].productName = product.name

\* C20: the cancellation of an order changes the stock of no product that
\* none of its items referenced at order time (the line of a deleted
\* product is skipped, also when products were created after the deletion),
\* and restores the recorded quantity to each referenced product that
\* still exists.
C20_DeletedLineSkipped ==
    [][\A i \in 1..Len(orders) :
          (/\ last'.op = "orders-manage" /\ last'.target = orders[i].id
           /\ last'.status = 200
           /\ orders[i].status # "cancelled" /\ orders'[i].status = "cancelled")
          => /\ Len(products') = Len(products)
             /\ \A p \in 1..Len(products) :
                   IF referencedBy(orders[i], products[p])
                   THEN products'[p].stock =
                            products[p].stock + recordedQuantity(orders[i].items, products[p].id)
                   ELSE products'[p].stock = products[p].stock]_vars

----------------------------------------------------------------------------
(* Product names *)

ProductNames == {"laptop", "LAPTOP", "camera"}

renameTo(n) == [noFields EXCEPT !.name = Some(n)]

expressRenameTo(n) == [name |-> Some(n), price |-> None, stock |-> None]

\* The admin creates, renames and deletes products, in the functions' store
\* and in the flat-file server's products file.
NextNames ==
    \/ \E n \in ProductNames : ProductsCreate(LocalIP, adminHdr, productBody(n, 2))
    \/ \E id \in 1..MaxProducts, n \in ProductNames :
          ProductsManage(LocalIP, adminHdr, "PUT", id, renameTo(n))
    \/ \E id \in 1..MaxProducts : ProductsManage(LocalIP, adminHdr, "DELETE", id, noFields)
    \/ \E n \in ProductNames :
          ExpressProductsPost("none", adminHdr, [expressProductBody EXCEPT !.name = n])
    \/ \E id \in 1..MaxProducts, n \in ProductNames :
          ExpressProductsPut(FALSE, adminHdr, id, expressRenameTo(n))
    \/ \E id \in 1..MaxProducts : ExpressProductsDelete(FALSE, adminHdr, id)

SpecNames == Init /\ [][NextNames]_vars

\* No two products of the list share a name, ignoring case.
uniqueNames(prods) ==
    \A i, j \in 1..Len(prods) :
        toLowerCase(prods[i].name) = toLowerCase(prods[j].name) => i = j

\* The positions of the list whose product has the name n, ignoring case.
namedLike(prods, n) ==
    {i \in 1..Len(prods) : toLowerCase(prods[i].name) = toLowerCase(sanitizeInput(n))}

\* C21: product names are unique ignoring case. A product create whose
\* name another product has is answered 409, a product update whose name
\* a different product has is answered 409, and in every state reached by
\* product creates, updates and deletes no two products share a name.
C21_UniqueProductNames ==
    /\ [](uniqueNames(products) /\ uniqueNames(files.products))
    /\ [][/\ (/\ last'.op = "products-create"
              /\ namedLike(products, last'.body.name) # {})
             => (last'.status = 409 /\ products' = products)
          /\ (/\ last'.op = "express-products-post"
              /\ namedLike(files.products, last'.body.name) # {})
             => (last'.status = 409 /\ files' = files)
          /\ (/\ last'.op = "products-manage" /\ last'.body.method = "PUT"
              /\ IsSome(last'.body.fields.name)
              /\ FindIndexById(products, last'.target) # 0
              /\ namedLike(products, Get(last'.body.fields.name))
                    \ {FindIndexById(products, last'.target)} # {})
             => (last'.status = 409 /\ products' = products)
          /\ (/\ last'.op = "express-products-put"
              /\ IsSome(last'.body.name)
              /\ FindIndexById(files.products, last'.target) # 0
              /\ namedLike(files.products, Get(last'.body.name))
                    \ {FindIndexById(files.products, last'.target)} # {})
             => (last'.status = 409 /\ files' = files)]_vars

----------------------------------------------------------------------------
(* The order of the stages of a request *)

StageHeaders == {None, userHdr, adminHdr}

\* A remote caller, to whom the functions' limiter applies, creates
\* products and updates order 1; the flat-file server's POST /api/products
\* is called with each of its limiters refusing.
NextStages ==
    \/ ProductsManage(LocalIP, adminHdr, "PUT", 1, [noFields EXCEPT !.isActive = Some(TRUE)])
    \/ OrdersCreate(LocalIP, userHdr, orderBody(oneLine))
    \/ \E hdr \in StageHeaders : ProductsCreate(RemoteIP, hdr, productBody("laptop", 2))
    \/ \E hdr \in StageHeaders : OrdersManage(RemoteIP, hdr, 1, statusOnly("confirmed"))
    \/ \E hdr \in StageHeaders, limited \in {"none", "general", "admin"} :
          ExpressProductsPost(limited, hdr, expressProductBody)

SpecStages == Init /\ [][NextStages]_vars

\* The timestamps of the remote caller's key for endpoint that are inside
\* the hour's window.
countedInWindow(store, endpoint) ==
    Len(validRequests(storedRequests(store, keyText(RemoteIP, endpoint)), now - 60))

\* The answer of a function called by the remote caller, maxRequests being
\* the endpoint's limit: refused by the limiter before any other stage, or
\* counted by it and then refused by the first later stage that fails.
stagesInOrder(endpoint, maxRequests, hdr) ==
    IF countedInWindow(rateLimitStore, endpoint) >= maxRequests
    THEN /\ last'.status = 429
         /\ products' = products /\ orders' = orders
         /\ countedInWindow(rateLimitStore', endpoint)
               = countedInWindow(rateLimitStore, endpoint)
    ELSE /\ countedInWindow(rateLimitStore', endpoint)
               = countedInWindow(rateLimitStore, endpoint) + 1
         /\ hdr = None => last'.status = 401
         /\ hdr = userHdr => last'.status = 403
         /\ hdr # adminHdr => (products' = products /\ orders' = orders)
         /\ hdr = adminHdr => last'.status \notin {401, 403, 429}

\* C22: the stages of a request run in the order rate-limit check, token
\* verification, admin role check, store operation, and a request refused
\* at one stage performs none of the later ones: a request the limiter
\* refuses is answered 429 whatever its token is and changes nothing, and
\* a request answered by the token or the role check was counted by the
\* limiter.
C22_StagesInOrder ==
    [][\A hdr \in StageHeaders :
          /\ ProductsCreate(RemoteIP, hdr, productBody("laptop", 2))
             => stagesInOrder("product-create", 10, hdr)
          /\ OrdersManage(RemoteIP, hdr, 1, statusOnly("confirmed"))
             => stagesInOrder("order-manage", 20, hdr)
          /\ \A limited \in {"general", "admin"} :
                ExpressProductsPost(limited, hdr, expressProductBody)
                => (last'.status = 429 /\ files' = files)]_vars

----------------------------------------------------------------------------
(* The browser's HTTP layer: APIClient of api.js *)

\* CONFIG.RETRY
RETRY_MAX_ATTEMPTS == 3
RETRY_DELAY == 1000
RETRY_BACKOFF == 2

\* Math.pow(base, n) for a natural n.
RECURSIVE pow(_, _)
pow(base, n) == IF n = 0 THEN 1 ELSE base * pow(base, n - 1)

\* A delay that does not grow with the attempts.
retryDelayFlat(retryCount) == RETRY_DELAY

\* CONFIG.RETRY.DELAY * Math.pow(CONFIG.RETRY.BACKOFF, retryCount)
retryDelay(retryCount) == RETRY_DELAY * pow(RETRY_BACKOFF, retryCount)

\* The options.method each API method passes to makeRequest (fetch's
\* default is GET).
methodOf(call) ==
    CASE call = "getOrders" -> "GET"
      [] call = "getProducts" -> "GET"
      [] call = "createOrder" -> "POST"
      [] call = "createProduct" -> "POST"
      [] call = "updateProduct" -> "PUT"
      [] call = "updateOrder" -> "PUT"
      [] call = "deleteProduct" -> "DELETE"

ApiCalls ==
    {"getOrders", "getProducts", "createOrder", "createProduct", "updateProduct",
     "updateOrder", "deleteProduct"}

\* The API methods that ask the client-side checkRateLimit first, and those
\* that answer from the cache.
ThrottledCalls == {"getOrders", "getProducts", "createOrder"}
CachedCalls == {"getOrders", "getProducts"}

\* What fetch resolves to: an HTTP status, or 0 for a rejected fetch (a
\* network error or the timeout's abort).
FetchAnswers == {0, 200, 201, 400, 401, 403, 404, 409, 429, 500, 503}

\* An API method up to its call of makeRequest: throttled is the answer of
\* the client-side checkRateLimit, cached that of getCachedData.
ApiCall(call, throttled, cached) ==
    /\ client.state # "fetching"
    /\ throttled => call \in ThrottledCalls
    /\ cached => call \in CachedCalls
    /\ client' =
          IF throttled
          THEN [noCall EXCEPT !.call = call, !.method = methodOf(call),
                              !.state = "failed", !.error = "RATE_LIMIT_ERROR"]
          ELSE IF cached
          THEN [noCall EXCEPT !.call = call, !.method = methodOf(call), !.state = "done"]
          ELSE [noCall EXCEPT !.call = call, !.method = methodOf(call),
                              !.state = "fetching"]
    /\ UNCHANGED <<users, products, orders, rateLimitStore, files, now, env, utilsImpl, last, awaiting, cart>>

\* One invocation of makeRequest(url, options, retryCount): the fetch, its
\* answer, and either the result, the error thrown, or the sleep before the
\* recursive call.
MakeRequest(answer) ==
    LET retry == client.retryCount < RETRY_MAX_ATTEMPTS
        sent == [client EXCEPT !.sent = @ + 1]
        again == [sent EXCEPT !.delays = Append(@, retryDelay(client.retryCount)),
                              !.retryCount = @ + 1]
        failed(e) == [sent EXCEPT !.state = "failed", !.error = e]
    IN  /\ client.state = "fetching"
        /\ client' =
              CASE answer = 0 -> failed("NETWORK_ERROR")
                [] answer \in 200..299 -> [sent EXCEPT !.state = "done"]
                [] answer = 401 -> failed("AUTH_ERROR")
                [] answer = 403 -> failed("FORBIDDEN_ERROR")
                [] answer = 404 -> failed("NOT_FOUND_ERROR")
                [] answer = 409 -> failed("CONFLICT_ERROR")
                [] answer = 429 -> IF retry THEN again ELSE failed("RATE_LIMIT_ERROR")
                [] answer >= 500 -> IF retry THEN again ELSE failed("SERVER_ERROR")
                [] OTHER -> failed("GENERIC_ERROR")
        /\ last' = [op |-> "fetch", hdr |-> None, target |-> 0, body |-> client.call,
                    status |-> answer, code |-> ""]
        /\ UNCHANGED <<users, products, orders, rateLimitStore, files, now, env, utilsImpl, awaiting, cart>>

NextClient ==
    \/ \E call \in ApiCalls, throttled, cached \in BOOLEAN : ApiCall(call, throttled, cached)
    \/ \E answer \in FetchAnswers : MakeRequest(answer)

SpecClient == Init /\ [][NextClient]_vars

\* C23: a request is retried only when it is a GET; a create order, product
\* create, update or delete request is sent at most once per API call.
C23_OnlyReadsRetried ==
    /\ [](client.retryCount > 0 => client.method = "GET")
    /\ [](client.call \in {"createOrder", "createProduct", "updateProduct",
                           "updateOrder", "deleteProduct"}
          => client.sent <= 1)

----------------------------------------------------------------------------
(* Pages of the order and product listings *)

\* The order of the product names under < and >, lower-cased.
nameRank(n) ==
    CASE toLowerCase(n) = "camera" -> 1
      [] toLowerCase(n) = "laptop" -> 2
      [] toLowerCase(n) = "phone" -> 3
      [] OTHER -> 4

\* The comparator of the products listing: a goes after b.
productSortsAfter(a, b, sortBy, sortOrder) ==
    LET aValue == IF sortBy = "price" THEN a.price ELSE nameRank(a.name)
        bValue == IF sortBy = "price" THEN b.price ELSE nameRank(b.name)
    IN  IF sortOrder = "desc" THEN aValue < bValue ELSE aValue > bValue

RECURSIVE sortProducts(_, _, _)
sortProducts(arr, sortBy, sortOrder) ==
    IF arr = <<>> THEN <<>>
    ELSE LET rest == sortProducts(SubSeq(arr, 1, Len(arr) - 1), sortBy, sortOrder)
             p == arr[Len(arr)]
             before == SelectSeq(rest, LAMBDA q : ~productSortsAfter(q, p, sortBy, sortOrder))
             after == SelectSeq(rest, LAMBDA q : productSortsAfter(q, p, sortBy, sortOrder))
         IN  before \o <<p>> \o after

\* exports.handler of the products function, for a query without category
\* and search filters: the rate limiter, the parameters, the sort and the
\* page. The record of the request keeps the page answered.
ProductsList(clientIP, query) ==
    LET rl == utilsCheckRateLimit(rateLimitStore, clientIP, "products", 100, 1)
        sanitizedSortBy == sanitizeInput(toLowerCase(query.sortBy))
        sanitizedSortOrder == sanitizeInput(toLowerCase(query.sortOrder))
        numLimit == numLimitOf(query.limit)
        numOffset == numOffsetOf(query.offset)
        sorted == sortProducts(products, sanitizedSortBy, sanitizedSortOrder)
        res == IF ~rl.allowed THEN [status |-> 429, code |-> "", body |-> <<>>]
               ELSE IF sanitizedSortBy \notin {"name", "price", "category", "createdAt"}
               THEN [status |-> 400, code |-> "Invalid sort field", body |-> <<>>]
               ELSE IF sanitizedSortOrder \notin allowedSortOrders
               THEN [status |-> 400, code |-> "Invalid sort order", body |-> <<>>]
               ELSE [status |-> 200, code |-> "",
                     body |-> slice(sorted, numOffset, numOffset + numLimit)]
    IN  /\ rateLimitStore' = rl.store
        /\ last' = [op |-> "products-list", hdr |-> None, target |-> 0,
                    body |-> [query |-> query, products |-> res.body],
                    status |-> res.status, code |-> res.code]
        /\ UNCHANGED <<users, products, orders, files, now, env, utilsImpl, client, awaiting, cart>>

LimitTexts == {"20", "1", "0", "-1", "abc", "100", "150", "12abc"}
OffsetTexts == {"0", "1", "-1", "abc"}

OrderPages ==
    {[baseQuery EXCEPT !.limit = l, !.offset = o] : l \in LimitTexts, o \in OffsetTexts}

ProductPages ==
    {[limit |-> l, offset |-> o, sortBy |-> s, sortOrder |-> "asc"] :
        l \in LimitTexts, o \in OffsetTexts, s \in {"name", "price", "createdAt"}}

NextPages ==
    \/ ProductsManage(LocalIP, adminHdr, "PUT", 1, [noFields EXCEPT !.isActive = Some(TRUE)])
    \/ ProductsCreate(LocalIP, adminHdr, productBody("laptop", 2))
    \/ OrdersCreateUpTo(MaxListed, LocalIP, userHdr, orderBody(oneLine))
    \/ \E query \in OrderPages : OrdersList(LocalIP, userHdr, query)
    \/ \E query \in ProductPages : ProductsList(LocalIP, query)

SpecPages == Init /\ [][NextPages]_vars

\* C24: for every limit and offset of a list orders or list products
\* query (0, negative, non-numeric and above 100 included) the page size
\* used is within 1..100 and the offset is at least 0, and the page
\* answered holds no more entries than the page size.
C24_PageWithinBounds ==
    (last.op \in {"orders-list", "products-list"} /\ last.status = 200)
    => LET numLimit == numLimitOf(last.body.query.limit)
           numOffset == numOffsetOf(last.body.query.offset)
           page == IF last.op = "orders-list" THEN last.body.orders ELSE last.body.products
           whole == IF last.op = "orders-list" THEN orders ELSE products
       IN  /\ numLimit \in 1..100
           /\ numOffset >= 0
           /\ Len(page) <= numLimit
           /\ Len(page) = Max2(0, Min2(numLimit, Len(whole) - numOffset))

\* A listing of two orders with limit -1 answered a page of one order.
C24_Witness ==
    /\ last.op = "orders-list" /\ last.status = 200
    /\ last.body.query.limit = "-1"
    /\ Len(orders) = 2 /\ Len(last.body.orders) = 1

----------------------------------------------------------------------------
(* Rejected update order requests, under SpecManage *)

\* C25: an update order request answered 400 (invalid status, disallowed
\* transition, invalid paymentStatus, or no changes) leaves the stored
\* orders and every product's stock as they were, also when it asks for
\* status cancelled together with an invalid paymentStatus.
C25_RejectedChangesNothing ==
    [][(last'.op = "orders-manage" /\ last'.status = 400)
       => (orders' = orders /\ products' = products)]_vars

\* The stock of the product at position p plus the quantities of that
\* product over the items of the orders that are not cancelled.
stockBalance(prods, ords, p) ==
    prods[p].stock
    + SumSeq([i \in 1..Len(ords) |->
                 IF ords[i].status = "cancelled" THEN 0
                 ELSE recordedQuantity(ords[i].items, prods[p].id)])

\* C26: stock conservation. A create order or update order request leaves,
\* for every product, the stock plus the quantities of the product over
\* the items of all non-cancelled orders as it was; so, while no product
\* is created, updated or deleted, that sum stays the product's initial
\* stock.
C26_StockConserved ==
    [][last'.op \in {"orders-create", "orders-manage"}
       => /\ Len(products') = Len(products)
          /\ \A p \in 1..Len(products) :
                stockBalance(products', orders', p) = stockBalance(products, orders, p)]_vars

----------------------------------------------------------------------------
(* Handlers that interleave at an await *)

\* The handler of slot is suspended at its await.
suspended(slot, op) == awaiting[slot].op = op /\ awaiting[slot].status = 0

\* The slot runs a handler that has not answered yet.
busy(slot) == awaiting[slot].op # "none" /\ awaiting[slot].status = 0

\* A handler that answers: the slot keeps the status answered.
answered(slot, op, body, status, code) ==
    /\ awaiting' = [awaiting EXCEPT ![slot] =
                       [op |-> op, body |-> body, read |-> <<>>, status |-> status]]
    /\ last' = [op |-> op, hdr |-> None, target |-> 0, body |-> body,
                status |-> status, code |-> code]

\* A handler that reaches its await holding the users it read.
suspends(slot, op, body, read) ==
    /\ awaiting' = [awaiting EXCEPT ![slot] =
                       [op |-> op, body |-> body, read |-> read, status |-> 0]]
    /\ last' = last

\* register.js up to `await bcrypt.hash` (lines 20-88): the limiter, the
\* validations and the existence check.
RegisterBegin(slot, clientIP, body) ==
    LET rl == utilsCheckRateLimit(rateLimitStore, clientIP, "register", 3, 60)
        res == IF ~rl.allowed THEN [status |-> 429, code |-> "", users |-> users]
               ELSE registerUser(body)
    IN  /\ ~busy(slot)
        /\ Len(users) < MaxUsers
        /\ rateLimitStore' = rl.store
        /\ IF res.status = 201 THEN suspends(slot, "register", body, <<>>)
           ELSE answered(slot, "register", body, res.status, res.code)
        /\ UNCHANGED <<users, products, orders, files, now, env, utilsImpl, client, cart>>

\* register.js after the await (lines 90-122): the new user is pushed and
\* 201 answered.
RegisterEnd(slot) ==
    LET body == awaiting[slot].body
        newUser == [id |-> Len(users) + 1,
                    username |-> sanitizeInput(toLowerCase(body.username)),
                    email |-> sanitizeInput(toLowerCase(body.email)),
                    password |-> body.password,
                    role |-> "customer", isActive |-> TRUE, lastLogin |-> 0]
    IN  /\ suspended(slot, "register")
        /\ users' = Append(users, newUser)
        /\ answered(slot, "register", body, 201, "")
        /\ UNCHANGED <<products, orders, rateLimitStore, files, now, env, utilsImpl, client, cart>>

\* POST /api/register up to `await bcrypt.hash` (part_000 lines 570-595),
\* for a request the limiter and the validators let through: readUsers and
\* the existence check.
ExpressRegisterBegin(slot, body) ==
    LET username == sanitizeInput(toLowerCase(body.username))
        email == sanitizeInput(toLowerCase(toLowerCase(body.email)))
        fsUsers == files.users
    IN  /\ ~busy(slot)
        /\ Len(files.users) < MaxUsers
        /\ IF existingUser(fsUsers, email, username)
           THEN answered(slot, "express-register", body, 409, "USER_EXISTS")
           ELSE suspends(slot, "express-register", body, fsUsers)
        /\ UNCHANGED <<users, products, orders, rateLimitStore, files, now, env, utilsImpl,
                       client, cart>>

\* POST /api/register after the await (lines 597-621): the new user is
\* pushed to the users read before the await, and those are written.
ExpressRegisterEnd(slot) ==
    LET body == awaiting[slot].body
        fsUsers == awaiting[slot].read
        newUser == [id |-> IF Len(fsUsers) > 0 THEN maxId(fsUsers) + 1 ELSE 1,
                    username |-> sanitizeInput(toLowerCase(body.username)),
                    email |-> sanitizeInput(toLowerCase(toLowerCase(body.email))),
                    password |-> body.password, role |-> "user",
                    isActive |-> TRUE, lastLogin |-> 0]
    IN  /\ suspended(slot, "express-register")
        /\ files' = [files EXCEPT !.users = Append(fsUsers, newUser)]
        /\ answered(slot, "express-register", body, 201, "")
        /\ UNCHANGED <<users, products, orders, rateLimitStore, now, env, utilsImpl, client, cart>>

\* POST /api/login up to `await bcrypt.compare` (lines 655-679), for a
\* request the limiter and the validators let through.
ExpressLoginBegin(slot, body) ==
    LET email == sanitizeInput(toLowerCase(body.email))
        fsUsers == files.users
        i == findUserByEmail(fsUsers, email)
    IN  /\ ~busy(slot)
        /\ IF i = 0
           THEN answered(slot, "express-login", body, 401, "INVALID_CREDENTIALS")
           ELSE IF ~fsUsers[i].isActive
           THEN answered(slot, "express-login", body, 403, "ACCOUNT_DEACTIVATED")
           ELSE suspends(slot, "express-login", body, fsUsers)
        /\ UNCHANGED <<users, products, orders, rateLimitStore, files, now, env, utilsImpl,
                       client, cart>>

\* POST /api/login after the await (lines 681-730): lastLogin is set in
\* the users read before the await, and those are written.
ExpressLoginEnd(slot) ==
    LET body == awaiting[slot].body
        fsUsers == awaiting[slot].read
        i == findUserByEmail(fsUsers, sanitizeInput(toLowerCase(body.email)))
    IN  /\ suspended(slot, "express-login")
        /\ IF body.password # fsUsers[i].password
           THEN /\ files' = files
                /\ answered(slot, "express-login", body, 401, "INVALID_CREDENTIALS")
           ELSE /\ files' = [files EXCEPT !.users = [fsUsers EXCEPT ![i].lastLogin = now]]
                /\ answered(slot, "express-login", body, 200, "")
        /\ UNCHANGED <<users, products, orders, rateLimitStore, now, env, utilsImpl, client, cart>>

aliceBody ==
    [username |-> "alice", email |-> "alice@x.com", password |-> "Passw0rd!",
     fullName |-> "Full Name"]

RaceBodies ==
    {aliceBody, [aliceBody EXCEPT !.username = "bob"],
     [aliceBody EXCEPT !.username = "bob", !.email = "BOB@X.COM"]}

RaceLogins ==
    {[email |-> "user@alandstore.com", password |-> "user123"],
     [email |-> "user@alandstore.com", password |-> "wrong"],
     [email |-> "alice@x.com", password |-> "Passw0rd!"]}

NextAwait ==
    \/ \E slot \in Slots, body \in RaceBodies : RegisterBegin(slot, LocalIP, body)
    \/ \E slot \in Slots : RegisterEnd(slot)
    \/ \E slot \in Slots, body \in RaceBodies : ExpressRegisterBegin(slot, body)
    \/ \E slot \in Slots : ExpressRegisterEnd(slot)
    \/ \E slot \in Slots, body \in RaceLogins : ExpressLoginBegin(slot, body)
    \/ \E slot \in Slots : ExpressLoginEnd(slot)

SpecAwait == Init /\ [][NextAwait]_vars

\* C27: two registrations for the same email or username that interleave
\* at the password hash do not both succeed: the two slots never hold two
\* 201 answers to requests with the same email or username, and neither
\* user store ever holds two users with one email or username.
C27_OneRegistrationWins ==
    /\ uniqueUsers(users) /\ uniqueUsers(files.users)
    /\ (/\ awaiting[1].status = 201 /\ awaiting[2].status = 201
        /\ awaiting[1].op = awaiting[2].op
        /\ awaiting[1].op \in {"register", "express-register"})
       => /\ sanitizeInput(toLowerCase(awaiting[1].body.email))
                # sanitizeInput(toLowerCase(awaiting[2].body.email))
          /\ sanitizeInput(toLowerCase(awaiting[1].body.username))
                # sanitizeInput(toLowerCase(awaiting[2].body.username))

\* C28: in the flat-file server a user that is in the users file stays in
\* it when a login that read the file earlier completes: the login's write
\* of lastLogin removes no user.
C28_RegisteredUserStays ==
    [][(\E slot \in Slots : ExpressLoginEnd(slot))
       => \A i \in 1..Len(files.users) :
             \E j \in 1..Len(files'.users) :
                 files'.users[j].email = files.users[i].email]_vars

----------------------------------------------------------------------------
(* Termination of APIClient.makeRequest *)

\* Every fetch is answered, or aborted by the request's timeout, so a
\* makeRequest that can run does run.
SpecClientLive == SpecClient /\ WF_vars(\E answer \in FetchAnswers : MakeRequest(answer))

\* C29: makeRequest always terminates. One API call sends at most
\* 1 + MAX_ATTEMPTS = 4 requests, waiting 1000 ms, 2000 ms and 4000 ms
\* between them; a fourth answer of 429 or 5xx fails the call with the
\* rate-limit or the server error; an answer of 401, 403, 404 or 409 fails
\* the call at once, without a retry.
C29_MakeRequestTerminates ==
    /\ [](client.sent <= 4)
    /\ [](client.delays = SubSeq(<<1000, 2000, 4000>>, 1, Len(client.delays)))
    /\ [](client.state = "fetching" => client.sent = Len(client.delays))
    /\ [][/\ (\E answer \in {401, 403, 404, 409} : MakeRequest(answer))
             => (client'.state = "failed" /\ client'.delays = client.delays)
          /\ (client.sent = 3 /\ MakeRequest(429))
             => (client'.state = "failed" /\ client'.error = "RATE_LIMIT_ERROR")
          /\ (client.sent = 3 /\ (MakeRequest(500) \/ MakeRequest(503)))
             => (client'.state = "failed" /\ client'.error = "SERVER_ERROR")
          /\ (client.sent < 3 /\ (MakeRequest(429) \/ MakeRequest(500) \/ MakeRequest(503)))
             => (client'.state = "fetching" /\ Len(client'.delays) = client.sent + 1)]_vars
    /\ (client.state = "fetching") ~> (client.state # "fetching")

\* A call failed with the rate-limit error after four requests and the
\* three waits.
C29_Witness ==
    /\ client.state = "failed" /\ client.error = "RATE_LIMIT_ERROR"
    /\ client.sent = 4 /\ client.delays = <<1000, 2000, 4000>>
    /\ last.op = "fetch" /\ last.status = 429

----------------------------------------------------------------------------
(* The cart of main.js *)

MaxCartIds == 2     \* the products offered to the cart
MaxQuantity == 3    \* addToCart stops at this quantity of an entry

\* cart.find(item => item.id === id): the position, 0 for undefined.
findItem(items, id) ==
    IF \E k \in 1..Len(items) : items[k].id = id
    THEN CHOOSE k \in 1..Len(items) :
            items[k].id = id /\ \A j \in 1..(k - 1) : items[j].id # id
    ELSE 0

\* addToCart with a push for every call.
addToCartAlwaysPush(items, id) == Append(items, [id |-> id, quantity |-> 1])

\* addToCart(product): the entry's quantity grows by one, or a new entry
\* of quantity 1 is pushed.
addToCart(items, id) ==
    IF findItem(items, id) # 0
    THEN [items EXCEPT ![findItem(items, id)].quantity = @ + 1]
    ELSE Append(items, [id |-> id, quantity |-> 1])

\* cart.filter(item => item.id !== productId)
removeFromCart(items, productId) == SelectSeq(items, LAMBDA item : item.id # productId)

AddToCart(id) ==
    /\ \A k \in 1..Len(cart.items) :
          cart.items[k].id = id => cart.items[k].quantity < MaxQuantity
    /\ cart' = [items |-> addToCart(cart.items, id), saved |-> addToCart(cart.items, id),
                op |-> <<"addToCart", id, 0>>]
    /\ UNCHANGED <<users, products, orders, rateLimitStore, files, now, env, utilsImpl, last,
                   client, awaiting>>

RemoveFromCart(productId) ==
    /\ cart' = [items |-> removeFromCart(cart.items, productId),
                saved |-> removeFromCart(cart.items, productId),
                op |-> <<"removeFromCart", productId, 0>>]
    /\ UNCHANGED <<users, products, orders, rateLimitStore, files, now, env, utilsImpl, last,
                   client, awaiting>>

\* updateQuantity(productId, newQuantity): nothing is saved when no entry
\* has the id.
UpdateQuantity(productId, newQuantity) ==
    LET k == findItem(cart.items, productId)
        set == [cart.items EXCEPT ![k].quantity = newQuantity]
    IN  /\ cart' =
              IF newQuantity <= 0
              THEN [items |-> removeFromCart(cart.items, productId),
                    saved |-> removeFromCart(cart.items, productId),
                    op |-> <<"updateQuantity", productId, newQuantity>>]
              ELSE IF k # 0
              THEN [items |-> set, saved |-> set,
                    op |-> <<"updateQuantity", productId, newQuantity>>]
              ELSE [cart EXCEPT !.op = <<"updateQuantity", productId, newQuantity>>]
        /\ UNCHANGED <<users, products, orders, rateLimitStore, files, now, env, utilsImpl,
                       last, client, awaiting>>

\* The buttons of the cart call updateQuantity with an entry's quantity
\* minus or plus one; the quantities given here are the integers around
\* those.
NextCart ==
    \/ \E id \in 1..MaxCartIds : AddToCart(id)
    \/ \E id \in 1..MaxCartIds : RemoveFromCart(id)
    \/ \E id \in 1..MaxCartIds, q \in (-1)..MaxQuantity : UpdateQuantity(id, q)

SpecCart == Init /\ [][NextCart]_vars

\* C30: from the empty cart, after any addToCart, removeFromCart and
\* updateQuantity calls each product id is in the cart at most once and
\* every entry has a quantity of at least 1; updateQuantity with a
\* quantity <= 0 removes the entry and keeps the others, and
\* updateQuantity for an id that is not in the cart leaves the cart as it
\* was.
C30_CartWellFormed ==
    /\ [](/\ \A j, k \in 1..Len(cart.items) : cart.items[j].id = cart.items[k].id => j = k
          /\ \A k \in 1..Len(cart.items) : cart.items[k].quantity >= 1)
    /\ [][\A id \in 1..MaxCartIds, q \in (-1)..MaxQuantity :
             UpdateQuantity(id, q)
             => /\ q <= 0
                   => /\ findItem(cart'.items, id) = 0
                      /\ cart'.items = SelectSeq(cart.items, LAMBDA item : item.id # id)
                /\ findItem(cart.items, id) = 0 => cart'.items = cart.items
                /\ (q > 0 /\ findItem(cart.items, id) # 0)
                   => cart'.items[findItem(cart.items, id)].quantity = q]_vars

\* updateQuantity(1, 0) removed the entry of product 1 from a cart that
\* keeps product 2 with quantity 2.
C30_Witness ==
    /\ cart.op = <<"updateQuantity", 1, 0>>
    /\ cart.items = <<[id |-> 2, quantity |-> 2]>>
    /\ cart.saved = cart.items

====
